---- MODULE Spec2Model ----
(***************************************************************************)
(* A model of slack-workspace-synth: the cursor codec and the keyset       *)
(* paginator of storage.py, the read API of api.py, and the generate       *)
(* command of cli.py with the seeded identity model of generator.py.       *)
(*                                                                         *)
(* Strings are sequences of byte values (the UTF-8 bytes of a Python str   *)
(* restricted to ASCII), so that JSON text, base64url tokens and SQLite's  *)
(* bytewise TEXT comparison are computed, not assumed.                     *)
(***************************************************************************)
EXTENDS Integers, Sequences, FiniteSets, TLC

VARIABLES
    coll,       \* the collection (table) this behaviour exercises
    store,      \* SQLiteStore: the rows of that table
    walk,       \* a cursor walk over list_X_page: its parameters, last call, pages so far
    resp,       \* the last read-API request and its HTTP response
    codec,      \* the last cursor codec call: its input and its result
    gen         \* the generate command: two runs, their position and their output

vars == <<coll, store, walk, resp, codec, gen>>

(***************************************************************************)
(* Byte strings                                                            *)
(***************************************************************************)

Min(a, b) == IF a <= b THEN a ELSE b
Max(a, b) == IF a >= b THEN a ELSE b

\* Python's bytes/str comparison and SQLite's BINARY collation: bytewise,
\* a proper prefix sorts first.
RECURSIVE StrLess(_, _)
StrLess(a, b) ==
    IF b = <<>> THEN FALSE
    ELSE IF a = <<>> THEN TRUE
    ELSE IF Head(a) # Head(b) THEN Head(a) < Head(b)
    ELSE StrLess(Tail(a), Tail(b))

\* str(n) for n >= 0, as ASCII digits.
RECURSIVE NatToStr(_)
NatToStr(n) ==
    IF n < 10 THEN <<48 + n>>
    ELSE NatToStr(n \div 10) \o <<48 + (n % 10)>>

\* json.dumps of an int (Python never writes a leading '+' or leading zeros).
IntToStr(n) == IF n < 0 THEN <<45>> \o NatToStr(0 - n) ELSE NatToStr(n)

\* json.dumps(..., ensure_ascii=False) of a str: '"' and '\' are escaped with a
\* backslash, newline and tab as \n and \t; every other byte >= 0x20 is
\* written as is.
RECURSIVE JsonEscape(_)
JsonEscape(s) ==
    IF s = <<>> THEN <<>>
    ELSE LET c == Head(s)
             e == IF c = 34 THEN <<92, 34>>
                  ELSE IF c = 92 THEN <<92, 92>>
                  ELSE IF c = 10 THEN <<92, 110>>
                  ELSE IF c = 9 THEN <<92, 116>>
                  ELSE <<c>>
         IN  e \o JsonEscape(Tail(s))

JsonString(s) == <<34>> \o JsonEscape(s) \o <<34>>

(***************************************************************************)
(* base64.urlsafe_b64encode / urlsafe_b64decode                            *)
(***************************************************************************)

\* The URL-safe alphabet: A-Z a-z 0-9 - _
B64Char(v) ==
    IF v < 26 THEN 65 + v
    ELSE IF v < 52 THEN 97 + (v - 26)
    ELSE IF v < 62 THEN 48 + (v - 52)
    ELSE IF v = 62 THEN 45
    ELSE 95

\* binascii's decoding table after urlsafe_b64decode's translation of '-' to
\* '+' and '_' to '/': both spellings of 62 and 63 are accepted; 64 marks a
\* byte outside the alphabet.
B64Value(c) ==
    IF c >= 65 /\ c <= 90 THEN c - 65
    ELSE IF c >= 97 /\ c <= 122 THEN c - 97 + 26
    ELSE IF c >= 48 /\ c <= 57 THEN c - 48 + 52
    ELSE IF c = 45 \/ c = 43 THEN 62
    ELSE IF c = 95 \/ c = 47 THEN 63
    ELSE 64

\* base64.urlsafe_b64encode(payload): three bytes to four characters, the
\* last group padded with '='.
RECURSIVE B64Encode(_)
B64Encode(b) ==
    IF b = <<>> THEN <<>>
    ELSE IF Len(b) = 1 THEN
        <<B64Char(b[1] \div 4), B64Char((b[1] % 4) * 16), 61, 61>>
    ELSE IF Len(b) = 2 THEN
        <<B64Char(b[1] \div 4),
          B64Char((b[1] % 4) * 16 + b[2] \div 16),
          B64Char((b[2] % 16) * 4), 61>>
    ELSE
        <<B64Char(b[1] \div 4),
          B64Char((b[1] % 4) * 16 + b[2] \div 16),
          B64Char((b[2] % 16) * 4 + b[3] \div 64),
          B64Char(b[3] % 64)>> \o B64Encode(SubSeq(b, 4, Len(b)))

\* .rstrip("=")
RECURSIVE RStripPad(_)
RStripPad(s) ==
    IF s # <<>> /\ s[Len(s)] = 61 THEN RStripPad(SubSeq(s, 1, Len(s) - 1)) ELSE s

\* binascii.a2b_base64 in its default (non-strict) mode, as a scan over the
\* input: st = [out, quad, left, pads, done].  Bytes outside the alphabet are
\* skipped; a '=' ends the data once the quad is complete with padding; data
\* ending inside a quad is an error.
B64Sextet(st, v) ==
    IF v >= 64 THEN st
    ELSE IF st.quad = 0 THEN [st EXCEPT !.quad = 1, !.left = v, !.pads = 0]
    ELSE IF st.quad = 1 THEN
        [st EXCEPT !.quad = 2, !.out = Append(@, st.left * 4 + v \div 16),
                   !.left = v % 16, !.pads = 0]
    ELSE IF st.quad = 2 THEN
        [st EXCEPT !.quad = 3, !.out = Append(@, st.left * 16 + v \div 4),
                   !.left = v % 4, !.pads = 0]
    ELSE
        [st EXCEPT !.quad = 0, !.out = Append(@, st.left * 64 + v),
                   !.left = 0, !.pads = 0]

B64Step(st, c) ==
    IF st.done THEN st
    ELSE IF c = 61 THEN
        IF st.quad >= 2 /\ st.quad + st.pads + 1 >= 4
        THEN [st EXCEPT !.done = TRUE]
        ELSE IF st.quad >= 2 THEN [st EXCEPT !.pads = @ + 1] ELSE st
    ELSE B64Sextet(st, B64Value(c))

RECURSIVE B64Scan(_, _)
B64Scan(st, s) == IF s = <<>> THEN st ELSE B64Scan(B64Step(st, Head(s)), Tail(s))

\* The end of the scan: an incomplete quad is "Incorrect padding".
B64Finish(st) ==
    IF st.done \/ st.quad = 0
    THEN [ok |-> TRUE, bytes |-> st.out]
    ELSE [ok |-> FALSE, bytes |-> <<>>]

\* base64.urlsafe_b64decode(padded.encode("ascii")): [ok, bytes].  A
\* character that is not ASCII fails in .encode("ascii").
B64Decode(s) ==
    IF \E i \in 1..Len(s) : s[i] > 127 THEN [ok |-> FALSE, bytes |-> <<>>]
    ELSE B64Finish(B64Scan([out |-> <<>>, quad |-> 0, left |-> 0, pads |-> 0,
                            done |-> FALSE], s))

\* cursor + "=" * (-len(cursor) % 4)
PadCursor(s) ==
    LET k == (4 - (Len(s) % 4)) % 4
    IN  s \o [i \in 1..k |-> 61]

(***************************************************************************)
(* json.loads, for the JSON grammar over ASCII text.  A value is           *)
(* [t, n, s]: t its JSON type, n the number of an int (1/0 for true/false),*)
(* s the text of a str, the <<key, value>> pairs of an object or the items *)
(* of an array.                                                            *)
(***************************************************************************)

JNull == [t |-> "null", n |-> 0, s |-> <<>>]
JBool(b) == [t |-> "bool", n |-> IF b THEN 1 ELSE 0, s |-> <<>>]
JInt(n) == [t |-> "int", n |-> n, s |-> <<>>]
JFloat == [t |-> "float", n |-> 0, s |-> <<>>]
JStr(s) == [t |-> "str", n |-> 0, s |-> s]
JObj(pairs) == [t |-> "obj", n |-> 0, s |-> pairs]
JArr(items) == [t |-> "arr", n |-> 0, s |-> items]

ParseFail == [ok |-> FALSE, v |-> JNull, pos |-> 0]
ParseOk(v, pos) == [ok |-> TRUE, v |-> v, pos |-> pos]

At(b, i) == IF i >= 1 /\ i <= Len(b) THEN b[i] ELSE -1
IsDigit(c) == c >= 48 /\ c <= 57
HasAt(b, i, lit) ==
    /\ i + Len(lit) - 1 <= Len(b)
    /\ \A k \in 1..Len(lit) : b[i + k - 1] = lit[k]

\* json's WHITESPACE: space, tab, newline, carriage return
RECURSIVE SkipWs(_, _)
SkipWs(b, i) ==
    IF At(b, i) \in {32, 9, 10, 13} THEN SkipWs(b, i + 1) ELSE i

HexVal(c) ==
    IF IsDigit(c) THEN c - 48
    ELSE IF c >= 97 /\ c <= 102 THEN c - 87
    ELSE IF c >= 65 /\ c <= 70 THEN c - 55
    ELSE -1

\* py_scanstring in strict mode, from the byte after the opening quote.
\* A \uXXXX escape is decoded when it names an ASCII character.
RECURSIVE ParseStringBody(_, _, _)
ParseStringBody(b, i, acc) ==
    LET c == At(b, i) IN
    IF c = -1 \/ (c < 32) THEN ParseFail
    ELSE IF c = 34 THEN ParseOk(JStr(acc), i + 1)
    ELSE IF c = 92 THEN
        LET e == At(b, i + 1)
            plain == IF e = 34 THEN 34 ELSE IF e = 92 THEN 92
                     ELSE IF e = 47 THEN 47 ELSE IF e = 110 THEN 10
                     ELSE IF e = 116 THEN 9 ELSE IF e = 114 THEN 13
                     ELSE IF e = 98 THEN 8 ELSE IF e = 102 THEN 12 ELSE -1
        IN  IF plain # -1 THEN ParseStringBody(b, i + 2, Append(acc, plain))
            ELSE IF e = 117 THEN
                LET h == [k \in 1..4 |-> HexVal(At(b, i + 1 + k))]
                    u == ((h[1] * 16 + h[2]) * 16 + h[3]) * 16 + h[4]
                IN  IF (\E k \in 1..4 : h[k] = -1) \/ u > 127 THEN ParseFail
                    ELSE ParseStringBody(b, i + 6, Append(acc, u))
            ELSE ParseFail
    ELSE ParseStringBody(b, i + 1, Append(acc, c))

\* The digits from position i: [n, pos].
RECURSIVE ParseDigits(_, _, _)
ParseDigits(b, i, n) ==
    IF IsDigit(At(b, i)) THEN ParseDigits(b, i + 1, n * 10 + (At(b, i) - 48))
    ELSE [n |-> n, pos |-> i]

\* NUMBER_RE's optional fraction (\.\d+)? at position k: the position after it.
FracEnd(b, k) ==
    IF At(b, k) = 46 /\ IsDigit(At(b, k + 1)) THEN ParseDigits(b, k + 1, 0).pos ELSE k

\* NUMBER_RE's optional exponent ([eE][-+]?\d+)? at position k, its digits
\* expected at position s: the position after it.
ExpDigits(b, k, s) ==
    IF At(b, k) \in {101, 69} /\ IsDigit(At(b, s)) THEN ParseDigits(b, s, 0).pos ELSE k
ExpEnd(b, k) == ExpDigits(b, k, IF At(b, k + 1) \in {43, 45} THEN k + 2 ELSE k + 1)

\* An int when the match has neither fraction nor exponent, else a float.
NumberOf(neg, int, end) ==
    IF end # int.pos THEN ParseOk(JFloat, end)
    ELSE ParseOk(JInt(IF neg THEN 0 - int.n ELSE int.n), int.pos)

\* The integer part (0|[1-9]\d*) at position j.
ParseUnsigned(b, j, neg) ==
    IF ~IsDigit(At(b, j)) THEN ParseFail
    ELSE NumberOf(neg,
                  IF At(b, j) = 48 THEN [n |-> 0, pos |-> j + 1] ELSE ParseDigits(b, j, 0),
                  ExpEnd(b, FracEnd(b, IF At(b, j) = 48 THEN j + 1
                                       ELSE ParseDigits(b, j, 0).pos)))

\* json.scanner's NUMBER_RE: -?(0|[1-9]\d*)(\.\d+)?([eE][-+]?\d+)?
ParseNumber(b, i) ==
    IF At(b, i) = 45 THEN ParseUnsigned(b, i + 1, TRUE) ELSE ParseUnsigned(b, i, FALSE)

RECURSIVE ParseValue(_, _)
RECURSIVE ParseMembers(_, _, _)
RECURSIVE ParseElements(_, _, _)

\* JSONObject after a member: ',' and the next member, or '}'.
MemberEnd(b, e, more) ==
    IF At(b, e) = 125 THEN ParseOk(JObj(more), e + 1)
    ELSE IF At(b, e) = 44 THEN ParseMembers(b, SkipWs(b, e + 1), more)
    ELSE ParseFail

\* JSONObject after "key" : the value v of the member.
MemberValue(b, acc, key, v) ==
    IF ~v.ok THEN ParseFail
    ELSE MemberEnd(b, SkipWs(b, v.pos), Append(acc, <<key, v.v>>))

\* JSONObject after the key k: ':' and the member's value.
MemberKey(b, acc, k) ==
    IF ~k.ok THEN ParseFail
    ELSE IF At(b, SkipWs(b, k.pos)) # 58 THEN ParseFail
    ELSE MemberValue(b, acc, k.v.s, ParseValue(b, SkipWs(b, SkipWs(b, k.pos) + 1)))

\* JSONObject after '{' or ',': "key" : value, then ',' or '}'.  i is at the
\* first byte that is not whitespace.
ParseMembers(b, i, acc) ==
    IF At(b, i) # 34 THEN ParseFail
    ELSE MemberKey(b, acc, ParseStringBody(b, i + 1, <<>>))

\* JSONArray after an element: ',' and the next element, or ']'.
ElementEnd(b, e, more) ==
    IF At(b, e) = 93 THEN ParseOk(JArr(more), e + 1)
    ELSE IF At(b, e) = 44 THEN ParseElements(b, SkipWs(b, e + 1), more)
    ELSE ParseFail

ElementValue(b, acc, v) ==
    IF ~v.ok THEN ParseFail
    ELSE ElementEnd(b, SkipWs(b, v.pos), Append(acc, v.v))

\* JSONArray after '[' or ',': value, then ',' or ']'.
ParseElements(b, i, acc) == ElementValue(b, acc, ParseValue(b, i))

\* JSONObject and JSONArray from the first byte j after the bracket that is
\* not whitespace.
ParseObject(b, j) ==
    IF At(b, j) = 125 THEN ParseOk(JObj(<<>>), j + 1) ELSE ParseMembers(b, j, <<>>)
ParseArray(b, j) ==
    IF At(b, j) = 93 THEN ParseOk(JArr(<<>>), j + 1) ELSE ParseElements(b, j, <<>>)

\* json.scanner's _scan_once at position i.
ParseValue(b, i) ==
    IF At(b, i) = 34 THEN ParseStringBody(b, i + 1, <<>>)
    ELSE IF At(b, i) = 123 THEN ParseObject(b, SkipWs(b, i + 1))
    ELSE IF At(b, i) = 91 THEN ParseArray(b, SkipWs(b, i + 1))
    ELSE IF HasAt(b, i, <<110, 117, 108, 108>>) THEN ParseOk(JNull, i + 4)
    ELSE IF HasAt(b, i, <<116, 114, 117, 101>>) THEN ParseOk(JBool(TRUE), i + 4)
    ELSE IF HasAt(b, i, <<102, 97, 108, 115, 101>>) THEN ParseOk(JBool(FALSE), i + 5)
    ELSE IF HasAt(b, i, <<78, 97, 78>>) THEN ParseOk(JFloat, i + 3)
    ELSE IF HasAt(b, i, <<73, 110, 102, 105, 110, 105, 116, 121>>)
        THEN ParseOk(JFloat, i + 8)
    ELSE IF HasAt(b, i, <<45, 73, 110, 102, 105, 110, 105, 116, 121>>)
        THEN ParseOk(JFloat, i + 9)
    ELSE ParseNumber(b, i)

\* The end of json.loads: the value r must be followed by whitespace only.
WholeText(b, r) ==
    IF r.ok /\ SkipWs(b, r.pos) = Len(b) + 1
    THEN [ok |-> TRUE, v |-> r.v]
    ELSE [ok |-> FALSE, v |-> JNull]

\* json.loads(raw.decode("utf-8")): [ok, v].  The bytes must be UTF-8 (here:
\* ASCII; a byte >= 128 stands for an invalid sequence), hold one value and
\* nothing but whitespace around it.
JsonLoads(b) ==
    IF \E i \in 1..Len(b) : b[i] > 127 THEN [ok |-> FALSE, v |-> JNull]
    ELSE WholeText(b, ParseValue(b, SkipWs(b, 1)))

\* "key" in decoded, and decoded["key"] (a dict keeps the last of equal keys).
HasKey(obj, key) == \E i \in 1..Len(obj.s) : obj.s[i][1] = key
GetKey(obj, key) ==
    LET i == CHOOSE i \in 1..Len(obj.s) :
                 /\ obj.s[i][1] = key
                 /\ \A j \in (i + 1)..Len(obj.s) : obj.s[j][1] # key
    IN  obj.s[i][2]

\* json.dumps(v, separators=(",", ":"), ensure_ascii=False).  A float is
\* written as 1.5: the model keeps the type of a float, not its value.
RECURSIVE JsonDumps(_)
RECURSIVE JsonDumpsItems(_, _)
JsonDumpsItem(item, isObj) ==
    IF isObj THEN JsonString(item[1]) \o <<58>> \o JsonDumps(item[2])
    ELSE JsonDumps(item)
JsonDumpsItems(items, isObj) ==
    IF items = <<>> THEN <<>>
    ELSE JsonDumpsItem(Head(items), isObj)
            \o (IF Len(items) = 1 THEN <<>>
                ELSE <<44>> \o JsonDumpsItems(Tail(items), isObj))
JsonDumps(v) ==
    IF v.t = "int" THEN IntToStr(v.n)
    ELSE IF v.t = "str" THEN JsonString(v.s)
    ELSE IF v.t = "bool" THEN
        (IF v.n = 1 THEN <<116, 114, 117, 101>> ELSE <<102, 97, 108, 115, 101>>)
    ELSE IF v.t = "null" THEN <<110, 117, 108, 108>>
    ELSE IF v.t = "float" THEN <<49, 46, 53>>
    ELSE IF v.t = "obj" THEN <<123>> \o JsonDumpsItems(v.s, TRUE) \o <<125>>
    ELSE <<91>> \o JsonDumpsItems(v.s, FALSE) \o <<93>>

(***************************************************************************)
(* The cursor codec of storage.py                                          *)
(***************************************************************************)

\* The field names "ts", "id", "channel_id", "user_id".
K_ts == <<116, 115>>
K_id == <<105, 100>>
K_channel_id == <<99, 104, 97, 110, 110, 101, 108, 95, 105, 100>>
K_user_id == <<117, 115, 101, 114, 95, 105, 100>>

\* A faulty variant of the token: the base64 padding is kept.
EncodePadded(payload) == B64Encode(payload)

\* base64.urlsafe_b64encode(payload).decode("ascii").rstrip("=")
EncodePayload(payload) == RStripPad(B64Encode(payload))

encode_cursor(ts, row_id) ==
    EncodePayload(JsonDumps(JObj(<<(<<K_ts, JInt(ts)>>), (<<K_id, JStr(row_id)>>)>>)))

encode_id_cursor(row_id) ==
    EncodePayload(JsonDumps(JObj(<<(<<K_id, JStr(row_id)>>)>>)))

encode_channel_member_cursor(channel_id, user_id) ==
    EncodePayload(JsonDumps(JObj(<<(<<K_channel_id, JStr(channel_id)>>),
                                   (<<K_user_id, JStr(user_id)>>)>>)))

\* The three outcomes of a decoder: None (the empty cursor), ValueError
\* ("invalid cursor"), or the decoded mapping m.
DecNone == [st |-> "none", m |-> <<>>]
DecError == [st |-> "error", m |-> <<>>]
DecOk(m) == [st |-> "ok", m |-> m]

\* json.loads of the decoded bytes; a base64 error is "invalid cursor" too.
LoadsRaw(raw) == IF ~raw.ok THEN [ok |-> FALSE, v |-> JNull] ELSE JsonLoads(raw.bytes)

\* The try block shared by the decoders: the padded token through
\* urlsafe_b64decode and json.loads; any exception is "invalid cursor".
DecodeJson(cursor) == LoadsRaw(B64Decode(PadCursor(cursor)))

\* isinstance(x, int): a bool is an int in Python, so JSON true and false pass.
IsInstanceInt(v) == v.t \in {"int", "bool"}
\* isinstance(x, str)
IsInstanceStr(v) == v.t = "str"

\* decode_cursor after the try block: d is the parsed JSON.  The mapping
\* keeps "ts" as the JSON value it was and "id" as its text.
CursorFields(d) ==
    IF ~d.ok THEN DecError
    ELSE IF d.v.t # "obj" THEN DecError
    ELSE IF ~HasKey(d.v, K_ts) \/ ~HasKey(d.v, K_id) THEN DecError
    ELSE IF ~IsInstanceInt(GetKey(d.v, K_ts)) \/ ~IsInstanceStr(GetKey(d.v, K_id))
        THEN DecError
    ELSE DecOk([ts |-> GetKey(d.v, K_ts), id |-> GetKey(d.v, K_id).s])

decode_cursor(cursor) ==
    IF cursor = <<>> THEN DecNone ELSE CursorFields(DecodeJson(cursor))

\* decode_id_cursor after the try block.
IdCursorFields(d) ==
    IF ~d.ok THEN DecError
    ELSE IF d.v.t # "obj" THEN DecError
    ELSE IF ~HasKey(d.v, K_id) THEN DecError
    ELSE IF ~IsInstanceStr(GetKey(d.v, K_id)) THEN DecError
    ELSE DecOk([id |-> GetKey(d.v, K_id).s])

decode_id_cursor(cursor) ==
    IF cursor = <<>> THEN DecNone ELSE IdCursorFields(DecodeJson(cursor))

\* decode_channel_member_cursor after the try block.
MemberCursorFields(d) ==
    IF ~d.ok THEN DecError
    ELSE IF d.v.t # "obj" THEN DecError
    ELSE IF ~HasKey(d.v, K_channel_id) \/ ~HasKey(d.v, K_user_id) THEN DecError
    ELSE IF ~IsInstanceStr(GetKey(d.v, K_channel_id))
            \/ ~IsInstanceStr(GetKey(d.v, K_user_id)) THEN DecError
    ELSE DecOk([channel_id |-> GetKey(d.v, K_channel_id).s,
                user_id |-> GetKey(d.v, K_user_id).s])

decode_channel_member_cursor(cursor) ==
    IF cursor = <<>> THEN DecNone ELSE MemberCursorFields(DecodeJson(cursor))

(***************************************************************************)
(* Python's Optional values: None is <<>>, a value x is <<x>>.             *)
(***************************************************************************)

None == <<>>
Some(x) == <<x>>
\* "if s:" for s: str | None
TruthyStr(o) == o # None /\ o[1] # <<>>

(***************************************************************************)
(* SQLiteStore: the tables behind the five paginated collections.  A row   *)
(* keeps the columns the paginator reads: the primary key, workspace_id    *)
(* and the filtered columns.                                               *)
(***************************************************************************)

Collections == {"users", "channels", "channel_members", "messages", "files"}

\* The primary key of the schema: id, or (channel_id, user_id) for
\* channel_members.
PrimaryKey(c, r) ==
    IF c = "channel_members" THEN <<r.channel_id, r.user_id>> ELSE <<r.id>>

HasKeyConflict(c, S, r) == \E x \in S : PrimaryKey(c, x) = PrimaryKey(c, r)

\* executemany of INSERT OR IGNORE: a row whose primary key exists is skipped.
RECURSIVE InsertOrIgnore(_, _, _)
InsertOrIgnore(c, S, batch) ==
    IF batch = <<>> THEN S
    ELSE InsertOrIgnore(c,
             IF HasKeyConflict(c, S, Head(batch)) THEN S ELSE S \cup {Head(batch)},
             Tail(batch))

\* executemany of INSERT: a primary-key conflict raises IntegrityError before
\* commit() is reached; the rows of the failed batch are not committed.
CommitOrRaise(S, batch, all) ==
    IF Cardinality(all) = Cardinality(S) + Len(batch) THEN all ELSE S
InsertPlain(c, S, batch) == CommitOrRaise(S, batch, InsertOrIgnore(c, S, batch))

\* insert_users / insert_channels / insert_messages / insert_files
InsertRows(c, S, batch, ignore) ==
    IF ignore THEN InsertOrIgnore(c, S, batch) ELSE InsertPlain(c, S, batch)

\* A faulty variant of insert_channel_members: a plain INSERT into a table
\* without its primary key.
InsertMemberRowsAll(S, batch) == S \cup {batch[i] : i \in 1..Len(batch)}

\* insert_channel_members: always INSERT OR IGNORE
InsertMemberRows(S, batch) == InsertOrIgnore("channel_members", S, batch)

(***************************************************************************)
(* The ORDER BY and the keyset predicate of each list_X_page               *)
(***************************************************************************)

\* The timestamp column of messages (ts) and of files (created_ts).
RowTs(c, r) == IF c = "messages" THEN r.ts ELSE r.created_ts

\* ORDER BY id ASC
IdOrder(r1, r2) == StrLess(r1.id, r2.id)
\* ORDER BY channel_id ASC, user_id ASC
MemberOrder(r1, r2) ==
    \/ StrLess(r1.channel_id, r2.channel_id)
    \/ (r1.channel_id = r2.channel_id /\ StrLess(r1.user_id, r2.user_id))
\* ORDER BY ts DESC, id DESC
MessageOrder(r1, r2) ==
    \/ r1.ts > r2.ts
    \/ (r1.ts = r2.ts /\ StrLess(r2.id, r1.id))
\* ORDER BY created_ts DESC, id DESC
FileOrder(r1, r2) ==
    \/ r1.created_ts > r2.created_ts
    \/ (r1.created_ts = r2.created_ts /\ StrLess(r2.id, r1.id))

OrderBy(c, r1, r2) ==
    IF c \in {"users", "channels"} THEN IdOrder(r1, r2)
    ELSE IF c = "channel_members" THEN MemberOrder(r1, r2)
    ELSE IF c = "messages" THEN MessageOrder(r1, r2)
    ELSE FileOrder(r1, r2)

\* The rows of S in the ORDER BY of collection c (a total order on a table:
\* the sort key holds the primary key).
SortRows(c, S) ==
    [i \in 1..Cardinality(S) |->
        CHOOSE r \in S : Cardinality({x \in S : OrderBy(c, x, r)}) = i - 1]

\* sqlite3's binding of a decoded "ts": an int as is, True/False as 1/0.
SqlInt(v) == v.n

\* "id > ?"
IdAfter(r, d) == StrLess(d.id, r.id)
\* "(channel_id > ? OR (channel_id = ? AND user_id > ?))"
MemberAfter(r, d) ==
    \/ StrLess(d.channel_id, r.channel_id)
    \/ (r.channel_id = d.channel_id /\ StrLess(d.user_id, r.user_id))
\* A faulty variant of the keyset predicate of messages: the timestamp alone,
\* without the id that breaks ties.
MessageAfterTsOnly(r, d) == r.ts < SqlInt(d.ts)

\* "(ts < ? OR (ts = ? AND id < ?))"
MessageAfter(r, d) ==
    \/ r.ts < SqlInt(d.ts)
    \/ (r.ts = SqlInt(d.ts) /\ StrLess(r.id, d.id))
\* "(created_ts < ? OR (created_ts = ? AND id < ?))"
FileAfter(r, d) ==
    \/ r.created_ts < SqlInt(d.ts)
    \/ (r.created_ts = SqlInt(d.ts) /\ StrLess(r.id, d.id))

\* "LIMIT ?": the first n rows of an ordered scan.
FirstRows(all, n) == SubSeq(all, 1, Min(Len(all), n))

\* The scan of a list_X_page: ORDER BY, "LIMIT ?" bound to limit + 1.
Fetch(c, S, limit) == FirstRows(SortRows(c, S), limit + 1)

\* A faulty variant of the cursor row: the look-ahead row rows[limit] of the
\* code's 0-based list.
CursorRowLookahead(rows, limit) == rows[limit + 1]

\* "last = rows[limit - 1]": the row the next cursor is built from (the
\* model's sequences are 1-based).
CursorRow(rows, limit) == rows[limit]

\* "if len(rows) > limit:"
HasMore(rows, limit) == Len(rows) > limit

\* A faulty variant of the truncation: the look-ahead row stays in the page.
TruncateKeepAll(rows, limit) == rows

\* "rows = rows[:limit]"
Truncate(rows, limit) == SubSeq(rows, 1, Min(Len(rows), limit))

\* The result of a list_X_page call: err (ValueError "invalid cursor"), the
\* rows the scan fetched, the page returned and the next cursor.
PageError == [err |-> TRUE, fetched |-> <<>>, rows |-> <<>>, next |-> None]
PageOk(fetched, rows, next) ==
    [err |-> FALSE, fetched |-> fetched, rows |-> rows, next |-> next]

\* The filters of a call, each Optional: a page function reads its own.
NoFilters ==
    [channel_type |-> None, channel_id |-> None, user_id |-> None,
     before_ts |-> None, after_ts |-> None]

\* The tail of list_users_page and list_channels_page: the cursor of the
\* next page is built from the id of the cursor row.
IdPageResult(rows, limit) ==
    IF HasMore(rows, limit)
    THEN PageOk(rows, Truncate(rows, limit),
                Some(encode_id_cursor(CursorRow(rows, limit).id)))
    ELSE PageOk(rows, rows, None)

\* list_users_page from its decoded cursor: the WHERE clause and the scan.
UsersQuery(S, workspace_id, limit, decoded) ==
    IF decoded.st = "error" THEN PageError
    ELSE IdPageResult(Fetch("users",
                            {r \in S :
                                /\ r.workspace_id = workspace_id
                                /\ (decoded.st = "ok" => IdAfter(r, decoded.m))},
                            limit),
                      limit)

list_users_page(S, workspace_id, limit, cursor) ==
    UsersQuery(S, workspace_id, limit,
               IF TruthyStr(cursor) THEN decode_id_cursor(cursor[1]) ELSE DecNone)

\* list_channels_page from its decoded cursor.
ChannelsQuery(S, workspace_id, limit, decoded, channel_type) ==
    IF decoded.st = "error" THEN PageError
    ELSE IdPageResult(Fetch("channels",
                            {r \in S :
                                /\ r.workspace_id = workspace_id
                                /\ (TruthyStr(channel_type)
                                        => r.channel_type = channel_type[1])
                                /\ (decoded.st = "ok" => IdAfter(r, decoded.m))},
                            limit),
                      limit)

list_channels_page(S, workspace_id, limit, cursor, channel_type) ==
    ChannelsQuery(S, workspace_id, limit,
                  IF TruthyStr(cursor) THEN decode_id_cursor(cursor[1]) ELSE DecNone,
                  channel_type)

\* The tail of list_channel_members_page.
MemberPageResult(rows, limit) ==
    IF HasMore(rows, limit)
    THEN PageOk(rows, Truncate(rows, limit),
                Some(encode_channel_member_cursor(CursorRow(rows, limit).channel_id,
                                                  CursorRow(rows, limit).user_id)))
    ELSE PageOk(rows, rows, None)

\* list_channel_members_page from its decoded cursor.
MembersQuery(S, workspace_id, limit, decoded, channel_id) ==
    IF decoded.st = "error" THEN PageError
    ELSE MemberPageResult(Fetch("channel_members",
                                {r \in S :
                                    /\ r.workspace_id = workspace_id
                                    /\ (TruthyStr(channel_id)
                                            => r.channel_id = channel_id[1])
                                    /\ (decoded.st = "ok" => MemberAfter(r, decoded.m))},
                                limit),
                          limit)

list_channel_members_page(S, workspace_id, limit, cursor, channel_id) ==
    MembersQuery(S, workspace_id, limit,
                 IF TruthyStr(cursor) THEN decode_channel_member_cursor(cursor[1])
                 ELSE DecNone,
                 channel_id)

\* The tail of list_messages_page.
MessagePageResult(rows, limit) ==
    IF HasMore(rows, limit)
    THEN PageOk(rows, Truncate(rows, limit),
                Some(encode_cursor(CursorRow(rows, limit).ts, CursorRow(rows, limit).id)))
    ELSE PageOk(rows, rows, None)

\* list_messages_page from its decoded cursor.
MessagesQuery(S, workspace_id, limit, decoded, channel_id, user_id, before_ts, after_ts) ==
    IF decoded.st = "error" THEN PageError
    ELSE MessagePageResult(Fetch("messages",
                                 {r \in S :
                                     /\ r.workspace_id = workspace_id
                                     /\ (TruthyStr(channel_id)
                                             => r.channel_id = channel_id[1])
                                     /\ (TruthyStr(user_id) => r.user_id = user_id[1])
                                     /\ (before_ts # None => r.ts < before_ts[1])
                                     /\ (after_ts # None => r.ts > after_ts[1])
                                     /\ (decoded.st = "ok" => MessageAfter(r, decoded.m))},
                                 limit),
                           limit)

list_messages_page(S, workspace_id, limit, cursor, channel_id, user_id, before_ts, after_ts) ==
    MessagesQuery(S, workspace_id, limit,
                  IF TruthyStr(cursor) THEN decode_cursor(cursor[1]) ELSE DecNone,
                  channel_id, user_id, before_ts, after_ts)

\* The tail of list_files_page.
FilePageResult(rows, limit) ==
    IF HasMore(rows, limit)
    THEN PageOk(rows, Truncate(rows, limit),
                Some(encode_cursor(CursorRow(rows, limit).created_ts,
                                   CursorRow(rows, limit).id)))
    ELSE PageOk(rows, rows, None)

\* list_files_page from its decoded cursor.
FilesQuery(S, workspace_id, limit, decoded, channel_id, user_id, before_ts, after_ts) ==
    IF decoded.st = "error" THEN PageError
    ELSE FilePageResult(Fetch("files",
                              {r \in S :
                                  /\ r.workspace_id = workspace_id
                                  /\ (TruthyStr(channel_id)
                                          => r.channel_id = channel_id[1])
                                  /\ (TruthyStr(user_id) => r.user_id = user_id[1])
                                  /\ (before_ts # None => r.created_ts < before_ts[1])
                                  /\ (after_ts # None => r.created_ts > after_ts[1])
                                  /\ (decoded.st = "ok" => FileAfter(r, decoded.m))},
                              limit),
                        limit)

list_files_page(S, workspace_id, limit, cursor, channel_id, user_id, before_ts, after_ts) ==
    FilesQuery(S, workspace_id, limit,
               IF TruthyStr(cursor) THEN decode_cursor(cursor[1]) ELSE DecNone,
               channel_id, user_id, before_ts, after_ts)

\* list_X_page for collection c, with the filters f it takes.
ListPage(c, S, workspace_id, limit, cursor, f) ==
    IF c = "users" THEN list_users_page(S, workspace_id, limit, cursor)
    ELSE IF c = "channels" THEN
        list_channels_page(S, workspace_id, limit, cursor, f.channel_type)
    ELSE IF c = "channel_members" THEN
        list_channel_members_page(S, workspace_id, limit, cursor, f.channel_id)
    ELSE IF c = "messages" THEN
        list_messages_page(S, workspace_id, limit, cursor, f.channel_id, f.user_id,
                           f.before_ts, f.after_ts)
    ELSE list_files_page(S, workspace_id, limit, cursor, f.channel_id, f.user_id,
                         f.before_ts, f.after_ts)

(***************************************************************************)
(* Inputs: identifiers, candidate rows and filter choices                  *)
(***************************************************************************)

\* Page sizes 1..MaxLimit (the API admits 1..5000).
MaxLimit == 2
\* Insert calls that change the store while a cursor walk is open.
MaxWalkInserts == 1

\* The identifiers a, a" (its quote is escaped in the cursor's JSON), b, c and
\* the workspaces w1, w2.
ID_a == <<97>>
ID_aq == <<97, 34>>
ID_b == <<98>>
ID_c == <<99>>
WS1 == <<119, 49>>
WS2 == <<119, 50>>
T_public == <<112, 117, 98, 108, 105, 99>>
T_im == <<105, 109>>

UserRow(id, ws) == [id |-> id, workspace_id |-> ws]
ChannelRow(id, ws, type) == [id |-> id, workspace_id |-> ws, channel_type |-> type]
MemberRow(ch, user, ws) == [channel_id |-> ch, user_id |-> user, workspace_id |-> ws]
MessageRow(id, ws, ch, user, ts) ==
    [id |-> id, workspace_id |-> ws, channel_id |-> ch, user_id |-> user, ts |-> ts]
FileRow(id, ws, ch, user, ts) ==
    [id |-> id, workspace_id |-> ws, channel_id |-> ch, user_id |-> user,
     created_ts |-> ts]

\* The rows a behaviour may insert: three of workspace w1 (two of them with
\* equal timestamps), one of w2, and one whose primary key repeats the first.
CandidateRows(c) ==
    IF c = "users" THEN
        {UserRow(ID_a, WS1), UserRow(ID_aq, WS1), UserRow(ID_b, WS1),
         UserRow(ID_c, WS2), UserRow(ID_a, WS2)}
    ELSE IF c = "channels" THEN
        {ChannelRow(ID_a, WS1, T_public), ChannelRow(ID_aq, WS1, T_im),
         ChannelRow(ID_b, WS1, T_public), ChannelRow(ID_c, WS2, T_public),
         ChannelRow(ID_a, WS2, T_im)}
    ELSE IF c = "channel_members" THEN
        {MemberRow(ID_a, ID_a, WS1), MemberRow(ID_a, ID_b, WS1),
         MemberRow(ID_b, ID_a, WS1), MemberRow(ID_c, ID_a, WS2),
         MemberRow(ID_a, ID_a, WS2)}
    ELSE IF c = "messages" THEN
        {MessageRow(ID_a, WS1, ID_a, ID_a, 2), MessageRow(ID_aq, WS1, ID_a, ID_b, 2),
         MessageRow(ID_b, WS1, ID_b, ID_a, 1), MessageRow(ID_c, WS2, ID_a, ID_a, 2),
         MessageRow(ID_a, WS2, ID_b, ID_b, 3)}
    ELSE
        {FileRow(ID_a, WS1, ID_a, ID_a, 2), FileRow(ID_aq, WS1, ID_a, ID_b, 2),
         FileRow(ID_b, WS1, ID_b, ID_a, 1), FileRow(ID_c, WS2, ID_a, ID_a, 2),
         FileRow(ID_a, WS2, ID_b, ID_b, 3)}

\* The batches of an insert call: one candidate row, or two rows that share
\* a primary key (in either order).
Batches(c) ==
    {<<r>> : r \in CandidateRows(c)}
        \cup {<<r1, r2>> : r1, r2 \in {r \in CandidateRows(c) : PrimaryKey(c, r) = <<ID_a>> \/ PrimaryKey(c, r) = <<ID_a, ID_a>>}}

\* The filters a walk or a request passes to list_X_page of collection c; an
\* empty string is a filter value a client can send.
FilterChoices(c) ==
    IF c = "users" THEN {NoFilters}
    ELSE IF c = "channels" THEN
        {[NoFilters EXCEPT !.channel_type = t] : t \in {None, Some(T_public), Some(<<>>)}}
    ELSE IF c = "channel_members" THEN
        {[NoFilters EXCEPT !.channel_id = ch] : ch \in {None, Some(ID_a), Some(<<>>)}}
    ELSE
        {NoFilters,
         [NoFilters EXCEPT !.channel_id = Some(ID_a)],
         [NoFilters EXCEPT !.user_id = Some(ID_a)],
         [NoFilters EXCEPT !.channel_id = Some(<<>>)],
         [NoFilters EXCEPT !.before_ts = Some(2)],
         [NoFilters EXCEPT !.after_ts = Some(1)],
         [NoFilters EXCEPT !.channel_id = Some(ID_a), !.user_id = Some(ID_a),
                           !.after_ts = Some(0)]}

(***************************************************************************)
(* A cursor walk over list_X_page, with inserts between its calls          *)
(***************************************************************************)

NoCall == [cursor |-> None, S |-> {}, out |-> PageOk(<<>>, <<>>, None)]

IdleWalk ==
    [st |-> "idle", ws |-> <<>>, limit |-> 0, f |-> NoFilters, cursor |-> None,
     start |-> {}, ins |-> 0, pages |-> <<>>, call |-> NoCall]

NoResp == [status |-> 0]
NoCodec == [op |-> "none", src |-> "none", key |-> <<>>, token |-> <<>>, out |-> DecNone]
NoGen == [pc |-> "none"]

\* An insert call changes the store; an open walk counts the calls that did.
\* A behaviour follows one walk or one API request: nothing is inserted once
\* the walk has ended or the request is answered.
AfterInsert(S) ==
    /\ walk.st \in {"idle", "open"}
    /\ resp = NoResp
    /\ walk.st = "open" => walk.ins < MaxWalkInserts
    /\ store' = S
    /\ walk' = IF walk.st = "open" /\ S # store
               THEN [walk EXCEPT !.ins = @ + 1] ELSE walk
    /\ UNCHANGED <<coll, resp, codec, gen>>

insert_users ==
    /\ coll = "users"
    /\ \E batch \in Batches("users"), ignore \in BOOLEAN :
           AfterInsert(InsertRows("users", store, batch, ignore))

insert_channels ==
    /\ coll = "channels"
    /\ \E batch \in Batches("channels"), ignore \in BOOLEAN :
           AfterInsert(InsertRows("channels", store, batch, ignore))

insert_channel_members ==
    /\ coll = "channel_members"
    /\ \E batch \in Batches("channel_members") :
           AfterInsert(InsertMemberRows(store, batch))

insert_messages ==
    /\ coll = "messages"
    /\ \E batch \in Batches("messages"), ignore \in BOOLEAN :
           AfterInsert(InsertRows("messages", store, batch, ignore))

insert_files ==
    /\ coll = "files"
    /\ \E batch \in Batches("files"), ignore \in BOOLEAN :
           AfterInsert(InsertRows("files", store, batch, ignore))

\* The walk after its first call returned out.
WalkStarted(ws, limit, f, first, out) ==
    [st |-> IF out.next = None THEN "done" ELSE "open",
     ws |-> ws, limit |-> limit, f |-> f, cursor |-> out.next,
     start |-> store, ins |-> 0, pages |-> <<out.rows>>,
     call |-> [cursor |-> first, S |-> store, out |-> out]]

\* The first call of a walk: no cursor (None, or the empty string).
StartWalk ==
    /\ walk.st = "idle"
    /\ \E ws \in {WS1, WS2}, limit \in 1..MaxLimit, f \in FilterChoices(coll),
          first \in {None, Some(<<>>)} :
        walk' = WalkStarted(ws, limit, f, first,
                            ListPage(coll, store, ws, limit, first, f))
    /\ UNCHANGED <<coll, store, resp, codec, gen>>

\* The walk after a further call returned out.
WalkContinued(out) ==
    [walk EXCEPT
        !.st = IF out.err THEN "error"
               ELSE IF out.next = None THEN "done" ELSE "open",
        !.cursor = out.next,
        !.pages = Append(@, out.rows),
        !.call = [cursor |-> walk.cursor, S |-> store, out |-> out]]

\* The next call of the walk passes the cursor the previous call returned.
NextPage ==
    /\ walk.st = "open"
    /\ walk' = WalkContinued(ListPage(coll, store, walk.ws, walk.limit, walk.cursor,
                                      walk.f))
    /\ UNCHANGED <<coll, store, resp, codec, gen>>

Init ==
    /\ coll \in Collections
    /\ store = {}
    /\ walk = IdleWalk
    /\ resp = NoResp
    /\ codec = NoCodec
    /\ gen = NoGen

Next ==
    \/ insert_users
    \/ insert_channels
    \/ insert_channel_members
    \/ insert_messages
    \/ insert_files
    \/ StartWalk
    \/ NextPage

Spec == Init /\ [][Next]_vars

(***************************************************************************)
(* api.py: the five paginated endpoints                                    *)
(***************************************************************************)

\* The largest offset a request passes (the API admits any offset >= 0).
MaxOffset == 1

\* The orders in which SQLite may return the rows of S for the offset query of
\* collection c: any order where the query has no ORDER BY (users, channels,
\* channel_members); "ORDER BY ts DESC" (created_ts for files) leaves rows of
\* equal timestamp in any order.
Orderings(c, S) ==
    {p \in [1..Cardinality(S) -> S] :
        /\ \A i, j \in 1..Cardinality(S) : i # j => p[i] # p[j]
        /\ c \in {"messages", "files"} =>
               \A i, j \in 1..Cardinality(S) : i < j => RowTs(c, p[i]) >= RowTs(c, p[j])}

\* "LIMIT ? OFFSET ?"
OffsetWindow(all, limit, offset) == SubSeq(all, offset + 1, Min(Len(all), offset + limit))

\* list_users / list_channels / list_channel_members / list_messages /
\* list_files: the results the offset query may return.
list_users(S, workspace_id, limit, offset) ==
    {OffsetWindow(all, limit, offset) :
        all \in Orderings("users", {r \in S : r.workspace_id = workspace_id})}
list_channels(S, workspace_id, limit, offset, channel_type) ==
    {OffsetWindow(all, limit, offset) :
        all \in Orderings("channels",
                          {r \in S : /\ r.workspace_id = workspace_id
                                     /\ (TruthyStr(channel_type)
                                            => r.channel_type = channel_type[1])})}
list_channel_members(S, workspace_id, limit, offset, channel_id) ==
    {OffsetWindow(all, limit, offset) :
        all \in Orderings("channel_members",
                          {r \in S : /\ r.workspace_id = workspace_id
                                     /\ (TruthyStr(channel_id)
                                            => r.channel_id = channel_id[1])})}
list_messages(S, workspace_id, limit, offset) ==
    {OffsetWindow(all, limit, offset) :
        all \in Orderings("messages", {r \in S : r.workspace_id = workspace_id})}
list_files(S, workspace_id, limit, offset) ==
    {OffsetWindow(all, limit, offset) :
        all \in Orderings("files", {r \in S : r.workspace_id = workspace_id})}

\* HTTPException(status_code=400, ...): no rows and no X-Next-Cursor header.
Http400 == [status |-> 400, rows |-> <<>>, next |-> None]
Http200(rows, next) == [status |-> 200, rows |-> rows, next |-> next]

\* The keyset branch of an endpoint: ValueError becomes 400; "if next_cursor:"
\* sets the X-Next-Cursor header.
KeysetResponse(page) ==
    IF page.err THEN Http400
    ELSE Http200(page.rows, IF TruthyStr(page.next) THEN page.next ELSE None)
OffsetResponses(results) == {Http200(rows, None) : rows \in results}

\* A faulty variant of "cursor is not None": an empty cursor counts as absent.
CursorGivenNonEmpty(cursor) == TruthyStr(cursor)

\* "cursor is not None"
CursorGiven(cursor) == cursor # None

\* "use_keyset = cursor is not None or any(v is not None for v in (channel_id,
\* user_id, before_ts, after_ts))"
UseKeyset(cursor, f) ==
    \/ CursorGiven(cursor)
    \/ f.channel_id # None \/ f.user_id # None \/ f.before_ts # None \/ f.after_ts # None

\* The endpoints: the responses a request may get.
api_list_users(S, workspace_id, limit, offset, cursor) ==
    IF CursorGiven(cursor) /\ offset # 0 THEN {Http400}
    ELSE IF CursorGiven(cursor)
        THEN {KeysetResponse(list_users_page(S, workspace_id, limit, cursor))}
    ELSE OffsetResponses(list_users(S, workspace_id, limit, offset))

api_list_channels(S, workspace_id, limit, offset, channel_type, cursor) ==
    IF CursorGiven(cursor) /\ offset # 0 THEN {Http400}
    ELSE IF CursorGiven(cursor)
        THEN {KeysetResponse(list_channels_page(S, workspace_id, limit, cursor,
                                                channel_type))}
    ELSE OffsetResponses(list_channels(S, workspace_id, limit, offset, channel_type))

api_list_channel_members(S, workspace_id, limit, offset, channel_id, cursor) ==
    IF CursorGiven(cursor) /\ offset # 0 THEN {Http400}
    ELSE IF CursorGiven(cursor)
        THEN {KeysetResponse(list_channel_members_page(S, workspace_id, limit, cursor,
                                                       channel_id))}
    ELSE OffsetResponses(list_channel_members(S, workspace_id, limit, offset, channel_id))

api_list_messages(S, workspace_id, limit, offset, cursor, f) ==
    IF UseKeyset(cursor, f) /\ offset # 0 THEN {Http400}
    ELSE IF UseKeyset(cursor, f)
        THEN {KeysetResponse(list_messages_page(S, workspace_id, limit, cursor,
                                                f.channel_id, f.user_id, f.before_ts,
                                                f.after_ts))}
    ELSE OffsetResponses(list_messages(S, workspace_id, limit, offset))

api_list_files(S, workspace_id, limit, offset, cursor, f) ==
    IF UseKeyset(cursor, f) /\ offset # 0 THEN {Http400}
    ELSE IF UseKeyset(cursor, f)
        THEN {KeysetResponse(list_files_page(S, workspace_id, limit, cursor,
                                             f.channel_id, f.user_id, f.before_ts,
                                             f.after_ts))}
    ELSE OffsetResponses(list_files(S, workspace_id, limit, offset))

\* Cursor tokens a client may send besides the ones the API returned: the
\* text "!", and the base64url of {}, [1], {"id":1}, {"id":"a"},
\* {"ts":true,"id":"a"}, {"ts":1.5,"id":"a"}, {"ts":2,"id":"a"},
\* {"channel_id":"a"} and {"channel_id":"a","user_id":"a"}.
TOK_bang == <<33>>
TOK_empty_object == EncodePayload(<<123, 125>>)
TOK_array == EncodePayload(<<91, 49, 93>>)
TOK_id_int == EncodePayload(<<123, 34, 105, 100, 34, 58, 49, 125>>)
TOK_id_a == encode_id_cursor(ID_a)
TOK_ts_true == EncodePayload(JsonDumps(JObj(<<(<<K_ts, JBool(TRUE)>>), (<<K_id, JStr(ID_a)>>)>>)))
TOK_ts_float == EncodePayload(JsonDumps(JObj(<<(<<K_ts, JFloat>>), (<<K_id, JStr(ID_a)>>)>>)))
TOK_ts_2_a == encode_cursor(2, ID_a)
TOK_channel_only == EncodePayload(JsonDumps(JObj(<<(<<K_channel_id, JStr(ID_a)>>)>>)))
TOK_member_a_a == encode_channel_member_cursor(ID_a, ID_a)

ClientTokens ==
    {TOK_bang, TOK_empty_object, TOK_array, TOK_id_int, TOK_id_a, TOK_ts_true,
     TOK_ts_float, TOK_ts_2_a, TOK_channel_only, TOK_member_a_a}

\* The cursor parameter of a request: absent, empty, or a token.
CursorChoices == {None, Some(<<>>)} \cup {Some(t) : t \in ClientTokens}

\* The response r to request req, as the client sees it.
Answered(req, r) ==
    [req |-> req, status |-> r.status, rows |-> r.rows, next |-> r.next]

Request(endpoint, workspace_id, limit, offset, cursor, f) ==
    [endpoint |-> endpoint, workspace_id |-> workspace_id, limit |-> limit,
     offset |-> offset, cursor |-> cursor, f |-> f]

get_users ==
    /\ coll = "users"
    /\ resp = NoResp
    /\ \E ws \in {WS1, WS2}, limit \in 1..MaxLimit, offset \in 0..MaxOffset,
          cursor \in CursorChoices :
        \E r \in api_list_users(store, ws, limit, offset, cursor) :
            resp' = Answered(Request("users", ws, limit, offset, cursor, NoFilters), r)
    /\ UNCHANGED <<coll, store, walk, codec, gen>>

get_channels ==
    /\ coll = "channels"
    /\ resp = NoResp
    /\ \E ws \in {WS1, WS2}, limit \in 1..MaxLimit, offset \in 0..MaxOffset,
          cursor \in CursorChoices, f \in FilterChoices("channels") :
        \E r \in api_list_channels(store, ws, limit, offset, f.channel_type, cursor) :
            resp' = Answered(Request("channels", ws, limit, offset, cursor, f), r)
    /\ UNCHANGED <<coll, store, walk, codec, gen>>

get_channel_members ==
    /\ coll = "channel_members"
    /\ resp = NoResp
    /\ \E ws \in {WS1, WS2}, limit \in 1..MaxLimit, offset \in 0..MaxOffset,
          cursor \in CursorChoices, f \in FilterChoices("channel_members") :
        \E r \in api_list_channel_members(store, ws, limit, offset, f.channel_id, cursor) :
            resp' = Answered(Request("channel_members", ws, limit, offset, cursor, f), r)
    /\ UNCHANGED <<coll, store, walk, codec, gen>>

get_messages ==
    /\ coll = "messages"
    /\ resp = NoResp
    /\ \E ws \in {WS1, WS2}, limit \in 1..MaxLimit, offset \in 0..MaxOffset,
          cursor \in CursorChoices, f \in FilterChoices("messages") :
        \E r \in api_list_messages(store, ws, limit, offset, cursor, f) :
            resp' = Answered(Request("messages", ws, limit, offset, cursor, f), r)
    /\ UNCHANGED <<coll, store, walk, codec, gen>>

get_files ==
    /\ coll = "files"
    /\ resp = NoResp
    /\ \E ws \in {WS1, WS2}, limit \in 1..MaxLimit, offset \in 0..MaxOffset,
          cursor \in CursorChoices, f \in FilterChoices("files") :
        \E r \in api_list_files(store, ws, limit, offset, cursor, f) :
            resp' = Answered(Request("files", ws, limit, offset, cursor, f), r)
    /\ UNCHANGED <<coll, store, walk, codec, gen>>

NextApi ==
    \/ insert_users
    \/ insert_channels
    \/ insert_channel_members
    \/ insert_messages
    \/ insert_files
    \/ get_users
    \/ get_channels
    \/ get_channel_members
    \/ get_messages
    \/ get_files

SpecApi == Init /\ [][NextApi]_vars

(***************************************************************************)
(* Calls of the cursor codec: a key is encoded and the token decoded, or a *)
(* token of a client is decoded                                            *)
(***************************************************************************)

\* The longest id a codec call encodes.
MaxIdLen == 2

\* Ids over the letter a, the quote and the backslash (both escaped in JSON).
IdValues == UNION {[1..n -> {97, 34, 92}] : n \in 0..MaxIdLen}
TsValues == {-12, 0, 7, 1700000000}

EncodeOps == {"encode_cursor", "encode_id_cursor", "encode_channel_member_cursor"}
DecodeOps == {"decode_cursor", "decode_id_cursor", "decode_channel_member_cursor"}

\* The tokens a decoder is called with, each with the call it comes from: the
\* token the previous call encoded, the empty cursor, or a client's token.
DecoderInputs ==
    (IF codec.op \in EncodeOps THEN {[src |-> codec.op, key |-> codec.key, token |-> codec.token]}
     ELSE {})
    \cup {[src |-> "client", key |-> <<>>, token |-> t] : t \in ClientTokens \cup {<<>>}}

Encoded(op, key, token) ==
    [op |-> op, src |-> "caller", key |-> key, token |-> token, out |-> DecNone]
Decoded(op, in, out) ==
    [op |-> op, src |-> in.src, key |-> in.key, token |-> in.token, out |-> out]

call_encode_cursor ==
    /\ codec.op = "none"
    /\ \E ts \in TsValues, row_id \in IdValues :
           codec' = Encoded("encode_cursor", [ts |-> ts, id |-> row_id],
                            encode_cursor(ts, row_id))
    /\ UNCHANGED <<coll, store, walk, resp, gen>>

call_encode_id_cursor ==
    /\ codec.op = "none"
    /\ \E row_id \in IdValues :
           codec' = Encoded("encode_id_cursor", [id |-> row_id], encode_id_cursor(row_id))
    /\ UNCHANGED <<coll, store, walk, resp, gen>>

call_encode_channel_member_cursor ==
    /\ codec.op = "none"
    /\ \E channel_id \in IdValues, user_id \in IdValues :
           codec' = Encoded("encode_channel_member_cursor",
                            [channel_id |-> channel_id, user_id |-> user_id],
                            encode_channel_member_cursor(channel_id, user_id))
    /\ UNCHANGED <<coll, store, walk, resp, gen>>

call_decode_cursor ==
    /\ codec.op \notin DecodeOps
    /\ \E in \in DecoderInputs :
           codec' = Decoded("decode_cursor", in, decode_cursor(in.token))
    /\ UNCHANGED <<coll, store, walk, resp, gen>>

call_decode_id_cursor ==
    /\ codec.op \notin DecodeOps
    /\ \E in \in DecoderInputs :
           codec' = Decoded("decode_id_cursor", in, decode_id_cursor(in.token))
    /\ UNCHANGED <<coll, store, walk, resp, gen>>

call_decode_channel_member_cursor ==
    /\ codec.op \notin DecodeOps
    /\ \E in \in DecoderInputs :
           codec' = Decoded("decode_channel_member_cursor", in,
                            decode_channel_member_cursor(in.token))
    /\ UNCHANGED <<coll, store, walk, resp, gen>>

NextCodec ==
    \/ call_encode_cursor
    \/ call_encode_id_cursor
    \/ call_encode_channel_member_cursor
    \/ call_decode_cursor
    \/ call_decode_id_cursor
    \/ call_decode_channel_member_cursor

\* Codec calls touch no table: the collection is fixed.
InitCodec ==
    /\ coll = "messages"
    /\ store = {}
    /\ walk = IdleWalk
    /\ resp = NoResp
    /\ codec = NoCodec
    /\ gen = NoGen

SpecCodec == InitCodec /\ [][NextCodec]_vars

(***************************************************************************)
(* generator.py: the seeded identity model and the record generators.      *)
(* A random.Random is the state of a 16-bit linear congruential generator, *)
(* which stands for the Mersenne Twister: random(), randint() and choice() *)
(* draw one value each, sample() one per element.  A Faker is such a       *)
(* generator too, and a faked name, word or sentence is the value drawn.   *)
(***************************************************************************)

LcgNext(x) == (25173 * x + 13849) % 65536

\* A faulty variant of the seeding: the random source carries on from the
\* commands run before.
RandomShared(seed) == LcgNext((seed + gen.run) % 65536)

\* random.Random(seed) and faker.seed_instance(seed)
Random(seed) == LcgNext(seed % 65536)

\* The state after k draws.
RECURSIVE Skip(_, _)
Skip(x, k) == IF k = 0 THEN x ELSE Skip(LcgNext(x), k - 1)

\* rng.randint(a, b) and rng.choice(seq) for the value x drawn.
randint(x, a, b) == a + (x % (b - a + 1))
choice(x, seq) == seq[1 + (x % Len(seq))]

\* rng.sample(population, k) from state x: k draws, each of them picking one of
\* the elements not picked yet.
RemoveAt(seq, i) == SubSeq(seq, 1, i - 1) \o SubSeq(seq, i + 1, Len(seq))
RECURSIVE sample(_, _, _)
sample(x, population, k) ==
    IF k = 0 THEN <<>>
    ELSE <<choice(LcgNext(x), population)>>
            \o sample(LcgNext(x),
                      RemoveAt(population, 1 + (LcgNext(x) % Len(population))), k - 1)

\* _ID_STREAM_SEED_OFFSETS
StreamOffset(stream) ==
    IF stream = "workspace" THEN 1001
    ELSE IF stream = "users" THEN 1003
    ELSE IF stream = "channels" THEN 1009
    ELSE IF stream = "messages" THEN 1021
    ELSE 1031

\* A faulty variant of the id stream: it is seeded from the number of ids
\* a session has drawn so far, not from the stream name.
IdRngShared(seed, stream, namespace) ==
    IntToStr(seed) \o <<58>>
        \o NatToStr(gen.drawn.users + gen.drawn.channels
                        + gen.drawn.messages + gen.drawn.files)
        \o <<58>> \o namespace

\* _id_rng: the stream of ids seeded from the SHA-256 digest of
\* f"{seed}:{offset}:{namespace}".  The digest, the generator it seeds and
\* uuid.UUID are taken to be free of collisions: a stream is known by the
\* payload it is seeded from, and its k-th id is that payload, '#' and k.
_id_rng(seed, stream, namespace) ==
    IntToStr(seed) \o <<58>> \o NatToStr(StreamOffset(stream)) \o <<58>> \o namespace

\* _seeded_uuid, for the k-th draw from the stream ids.
_seeded_uuid(ids, k) == ids \o <<35>> \o NatToStr(k)

\* A faulty variant of the namespace: the file count is left out.
NamespaceWithoutFiles(config) ==
    config.workspace_name \o <<124>> \o IntToStr(config.users)
        \o <<124>> \o IntToStr(config.channels)
        \o <<124>> \o IntToStr(config.dm_channels)
        \o <<124>> \o IntToStr(config.mpdm_channels)
        \o <<124>> \o IntToStr(config.messages)

\* _workspace_id_namespace: "|".join of the name and the six counts.
_workspace_id_namespace(config) ==
    config.workspace_name \o <<124>> \o IntToStr(config.users)
        \o <<124>> \o IntToStr(config.channels)
        \o <<124>> \o IntToStr(config.dm_channels)
        \o <<124>> \o IntToStr(config.mpdm_channels)
        \o <<124>> \o IntToStr(config.messages)
        \o <<124>> \o IntToStr(config.files)

\* _base_ts
_base_ts(seed) == 1700000000 + (seed % 10000) * 100

\* generate_workspace, generate_users, generate_channels: no plugin hook is
\* registered, the mapping synthesized is the record.
generate_workspace(config) ==
    [id |-> _seeded_uuid(_id_rng(config.seed, "workspace", _workspace_id_namespace(config)), 1),
     name |-> config.workspace_name,
     created_at |-> _base_ts(config.seed)]

\* User idx (from 1) takes the draws 2*idx - 1 (name) and 2*idx (job) of
\* faker and the draw idx of rng; the email is made of the name and idx - 1.
generate_users(config, workspace_id, rng, faker) ==
    [idx \in 1..config.users |->
        [id |-> _seeded_uuid(_id_rng(config.seed, "users", workspace_id), idx),
         workspace_id |-> workspace_id,
         name |-> Skip(faker, 2 * idx - 1),
         email |-> <<Skip(faker, 2 * idx - 1), idx - 1>>,
         title |-> Skip(faker, 2 * idx),
         is_bot |-> IF Skip(rng, idx) % 50 = 0 THEN 1 ELSE 0]]

\* The three loops of generate_channels; all draw from one id stream.
OrdinaryChannels(config, workspace_id, rng, faker) ==
    [idx \in 1..config.channels |->
        [id |-> _seeded_uuid(_id_rng(config.seed, "channels", workspace_id), idx),
         workspace_id |-> workspace_id,
         name |-> <<Skip(faker, 2 * idx - 1), idx - 1>>,
         is_private |-> IF Skip(rng, idx) % 100 < 15 THEN 1 ELSE 0,
         channel_type |-> IF Skip(rng, idx) % 100 < 15 THEN "private" ELSE "public",
         topic |-> Skip(faker, 2 * idx)]]
DmChannels(config, workspace_id) ==
    [idx \in 1..config.dm_channels |->
        [id |-> _seeded_uuid(_id_rng(config.seed, "channels", workspace_id),
                            config.channels + idx),
         workspace_id |-> workspace_id,
         name |-> <<"dm", idx>>,
         is_private |-> 1,
         channel_type |-> "im",
         topic |-> "Direct message"]]
MpdmChannels(config, workspace_id) ==
    [idx \in 1..config.mpdm_channels |->
        [id |-> _seeded_uuid(_id_rng(config.seed, "channels", workspace_id),
                            config.channels + config.dm_channels + idx),
         workspace_id |-> workspace_id,
         name |-> <<"mpdm", idx>>,
         is_private |-> 1,
         channel_type |-> "mpim",
         topic |-> "Multi-party direct message"]]
generate_channels(config, workspace_id, rng, faker) ==
    OrdinaryChannels(config, workspace_id, rng, faker)
        \o DmChannels(config, workspace_id) \o MpdmChannels(config, workspace_id)

\* A faulty variant of the sampling: one member fewer than the count drawn.
SampleOneFewer(x, user_ids, member_count) ==
    [ids |-> sample(LcgNext(x), user_ids, member_count - 1),
     rng |-> Skip(x, member_count)]

\* rng.randint for the member count and rng.sample of that many users:
\* [ids, rng], rng the state after the draws.
SampleMembers(x, user_ids, member_count) ==
    [ids |-> sample(LcgNext(x), user_ids, member_count), rng |-> Skip(x, 1 + member_count)]

\* max_channel_members and min_channel_members for a pool of n users.
MaxChannelMembers(config, n) == Max(1, Min(config.channel_members_max, n))
MinChannelMembers(config, n) ==
    Max(1, Min(config.channel_members_min, MaxChannelMembers(config, n)))

\* The body of the loop over channels in generate_channel_members: the
\* members of one channel.
ChannelMemberIds(config, channel, user_ids, x) ==
    IF channel.channel_type = "im" THEN
        IF Len(user_ids) >= 2
        THEN [ids |-> sample(x, user_ids, 2), rng |-> Skip(x, 2)]
        ELSE [ids |-> user_ids, rng |-> x]
    ELSE IF channel.channel_type = "mpim" THEN
        IF Min(config.mpdm_members_max, Len(user_ids)) < 3
        THEN [ids |-> user_ids, rng |-> x]
        ELSE SampleMembers(x, user_ids,
                 randint(LcgNext(x),
                         Max(3, Min(config.mpdm_members_min,
                                    Min(config.mpdm_members_max, Len(user_ids)))),
                         Min(config.mpdm_members_max, Len(user_ids))))
    ELSE SampleMembers(x, user_ids,
             randint(LcgNext(x), MinChannelMembers(config, Len(user_ids)),
                     MaxChannelMembers(config, Len(user_ids))))

RECURSIVE MembersFrom(_, _, _, _, _, _)
\* _add_members for the ids m.ids of the first of channels, then the rest.
AddMembers(config, workspace_id, user_ids, channels, acc, m) ==
    MembersFrom(config, workspace_id, user_ids, Tail(channels), m.rng,
                acc \o [i \in 1..Len(m.ids) |->
                           [channel_id |-> Head(channels).id,
                            workspace_id |-> workspace_id,
                            user_id |-> m.ids[i]]])
MembersFrom(config, workspace_id, user_ids, channels, x, acc) ==
    IF channels = <<>> THEN [rows |-> acc, rng |-> x]
    ELSE AddMembers(config, workspace_id, user_ids, channels, acc,
                    ChannelMemberIds(config, Head(channels), user_ids, x))

\* generate_channel_members: [rows, rng]
generate_channel_members(config, workspace_id, users, channels, rng) ==
    IF users = <<>> THEN [rows |-> <<>>, rng |-> rng]
    ELSE MembersFrom(config, workspace_id, [i \in 1..Len(users) |-> users[i].id],
                     channels, rng, <<>>)

\* A faulty variant of the message: the author is chosen among the channel
\* ids and the channel among the user ids.
MessageSwappedIds(config, workspace_id, user_ids, channel_ids, idx, x, y) ==
    [id |-> _seeded_uuid(_id_rng(config.seed, "messages", workspace_id), idx),
     workspace_id |-> workspace_id,
     channel_id |-> choice(Skip(x, 1), user_ids),
     user_id |-> choice(Skip(x, 2), channel_ids),
     ts |-> _base_ts(config.seed) - randint(Skip(x, 3), 0, 2592000),
     text |-> <<randint(Skip(x, 4), 4, 20), LcgNext(y)>>,
     thread_ts |-> None,
     reply_count |-> randint(Skip(x, 5), 0, 6),
     reactions_json |-> randint(Skip(x, 6), 0, 5)]

\* The message at position idx (from 1) of the stream generate_messages
\* yields, x and y the states of rng and faker before it: six draws of rng
\* and one of faker.
Message(config, workspace_id, user_ids, channel_ids, idx, x, y) ==
    [id |-> _seeded_uuid(_id_rng(config.seed, "messages", workspace_id), idx),
     workspace_id |-> workspace_id,
     channel_id |-> choice(Skip(x, 1), channel_ids),
     user_id |-> choice(Skip(x, 2), user_ids),
     ts |-> _base_ts(config.seed) - randint(Skip(x, 3), 0, 2592000),
     text |-> <<randint(Skip(x, 4), 4, 20), LcgNext(y)>>,
     thread_ts |-> None,
     reply_count |-> randint(Skip(x, 5), 0, 6),
     reactions_json |-> randint(Skip(x, 6), 0, 5)]

\* The next n messages of generate_messages after the first done ones.
generate_messages(config, workspace_id, user_ids, channel_ids, rng, faker, done, n) ==
    [j \in 1..n |->
        Message(config, workspace_id, user_ids, channel_ids, done + j,
                Skip(rng, 6 * (j - 1)), Skip(faker, j - 1))]

\* The file at position idx of the stream generate_files yields: two ids of
\* the stream (the id and the url), six draws of rng and one of faker.
File(config, workspace_id, user_ids, channel_ids, idx, x, y) ==
    [id |-> _seeded_uuid(_id_rng(config.seed, "files", workspace_id), 2 * idx - 1),
     workspace_id |-> workspace_id,
     user_id |-> choice(Skip(x, 1), user_ids),
     name |-> <<LcgNext(y), choice(Skip(x, 2), <<"pdf", "png", "txt", "zip">>)>>,
     size |-> randint(Skip(x, 3), 5000, 5000000),
     mimetype |-> choice(Skip(x, 4),
                         <<"application/pdf", "image/png", "text/plain", "application/zip">>),
     created_ts |-> _base_ts(config.seed) - randint(Skip(x, 5), 0, 2592000),
     channel_id |-> choice(Skip(x, 6), channel_ids),
     message_id |-> None,
     url |-> _seeded_uuid(_id_rng(config.seed, "files", workspace_id), 2 * idx)]

\* The next n files of generate_files after the first done ones.
generate_files(config, workspace_id, user_ids, channel_ids, rng, faker, done, n) ==
    [j \in 1..n |->
        File(config, workspace_id, user_ids, channel_ids, done + j,
             Skip(rng, 6 * (j - 1)), Skip(faker, j - 1))]

(***************************************************************************)
(* cli.py: the generate command.  A behaviour runs the command MaxRuns     *)
(* times at most, each time after the first against a fresh database file  *)
(* or against the file the command before left.  No plugin is loaded and   *)
(* no summary is exported.  The tables of the file keep their rows in      *)
(* rowid order.                                                            *)
(***************************************************************************)

MaxRuns == 2

\* The database file before any command has created it.
NoDb ==
    [exists |-> FALSE, workspaces |-> <<>>, workspace_meta |-> {}, users |-> <<>>,
     channels |-> <<>>, channel_members |-> <<>>, messages |-> <<>>, files |-> <<>>]

NoRun == [pc |-> "none"]
IdleGen == [pc |-> "idle", run |-> 0, db |-> NoDb]

\* Command lines: three base configurations and the configurations that
\* differ from a base in one option.
BaseFull ==
    [workspace_name |-> <<65>>, users |-> 2, channels |-> 1, dm_channels |-> 1,
     mpdm_channels |-> 0, messages |-> 2, files |-> 1, seed |-> 1, batch_size |-> 1,
     channel_members_min |-> 1, channel_members_max |-> 2,
     mpdm_members_min |-> 3, mpdm_members_max |-> 3]
BaseNoChannels ==
    [BaseFull EXCEPT !.channels = 0, !.dm_channels = 0, !.messages = 0, !.files = 0]
BaseEmpty == [BaseNoChannels EXCEPT !.users = 0]
BaseGroup == [BaseFull EXCEPT !.users = 3, !.mpdm_channels = 1]

WithOption(base, option, values) == {[base EXCEPT ![option] = v] : v \in values}

Configs ==
    {BaseFull, BaseNoChannels, BaseEmpty, BaseGroup}
        \cup WithOption(BaseFull, "workspace_name", {<<66>>, <<65, 124, 50>>})
        \cup WithOption(BaseFull, "users", {-1, 0, 1, 3})
        \cup WithOption(BaseFull, "channels", {-1, 0, 2})
        \cup WithOption(BaseFull, "dm_channels", {-1, 0})
        \cup WithOption(BaseFull, "mpdm_channels", {-1, 1})
        \cup WithOption(BaseFull, "messages", {-1, 0, 3})
        \cup WithOption(BaseFull, "files", {-1, 0, 2})
        \cup WithOption(BaseFull, "seed", {2, 10001})
        \cup WithOption(BaseFull, "batch_size", {-1, 0, 2})
        \cup WithOption(BaseFull, "channel_members_min", {0, 3})
        \cup WithOption(BaseFull, "channel_members_max", {0, 1})
        \cup WithOption(BaseFull, "mpdm_members_min", {0, 4})
        \cup WithOption(BaseFull, "mpdm_members_max", {0})
        \cup WithOption(BaseNoChannels, "messages", {1})
        \cup WithOption(BaseNoChannels, "files", {1})
        \cup WithOption(BaseEmpty, "users", {1})
        \cup WithOption(BaseEmpty, "channels", {1})
        \cup WithOption(BaseEmpty, "dm_channels", {1})
        \cup WithOption(BaseEmpty, "mpdm_channels", {1})
        \cup WithOption(BaseEmpty, "messages", {1})
        \cup WithOption(BaseEmpty, "files", {1})

\* A faulty variant of the validation: min > max is let through.
BadParameterBoundsUnordered(config) ==
    \/ config.users < 0 \/ config.channels < 0 \/ config.dm_channels < 0
    \/ config.mpdm_channels < 0 \/ config.messages < 0 \/ config.files < 0
    \/ config.batch_size <= 0
    \/ config.channel_members_min <= 0 \/ config.channel_members_max <= 0
    \/ config.mpdm_members_min <= 0 \/ config.mpdm_members_max <= 0
    \/ /\ config.users = 0
       /\ \/ config.dm_channels > 0 \/ config.mpdm_channels > 0
          \/ config.messages > 0 \/ config.files > 0
    \/ /\ config.channels + config.dm_channels + config.mpdm_channels = 0
       /\ (config.messages > 0 \/ config.files > 0)

\* The checks of generate that raise typer.BadParameter, on the resolved
\* values.
BadParameter(config) ==
    \/ config.users < 0 \/ config.channels < 0 \/ config.dm_channels < 0
    \/ config.mpdm_channels < 0 \/ config.messages < 0 \/ config.files < 0
    \/ config.batch_size <= 0
    \/ config.channel_members_min <= 0 \/ config.channel_members_max <= 0
    \/ config.channel_members_min > config.channel_members_max
    \/ config.mpdm_members_min <= 0 \/ config.mpdm_members_max <= 0
    \/ config.mpdm_members_min > config.mpdm_members_max
    \/ /\ config.users = 0
       /\ \/ config.dm_channels > 0 \/ config.mpdm_channels > 0
          \/ config.messages > 0 \/ config.files > 0
    \/ /\ config.channels + config.dm_channels + config.mpdm_channels = 0
       /\ (config.messages > 0 \/ config.files > 0)

\* What is kept of the command that ran before.
Snapshot(g) ==
    IF g.run = 0 THEN NoRun
    ELSE [pc |-> g.pc, config |-> g.config, fresh |-> g.fresh, db |-> g.db,
          exit |-> g.exit, workspace_obj |-> g.workspace_obj, user_list |-> g.user_list]

\* generate up to "store = SQLiteStore(db)": typer.BadParameter ends the
\* command with exit code 2; otherwise config, rng and faker are set up.
\* db0 is the file as the command found it.
Invoked(g, config, db, fresh) ==
    [pc |-> IF BadParameter(config) THEN "rejected" ELSE "configured",
     run |-> g.run + 1, config |-> config, fresh |-> fresh,
     rng |-> IF BadParameter(config) THEN None ELSE Some(Random(config.seed)),
     faker |-> IF BadParameter(config) THEN None ELSE Some(Random(config.seed)),
     opened |-> FALSE, workspace_obj |-> None, user_list |-> <<>>,
     channel_list |-> <<>>, messages_done |-> 0, files_done |-> 0,
     db |-> db, db0 |-> db,
     exit |-> IF BadParameter(config) THEN Some(2) ELSE None,
     prev |-> Snapshot(g)]

\* An exception inside the try block: "finally: store.close()", exit code 1.
StoreRaised(g) == [g EXCEPT !.pc = "failed", !.opened = FALSE, !.exit = Some(1)]

\* A primary key twice in the batch, the rows of the table not looked at.
ConflictsInBatch(c, table, batch) ==
    \E i \in 1..Len(batch) :
        \E j \in 1..Len(batch) :
            j # i /\ PrimaryKey(c, batch[j]) = PrimaryKey(c, batch[i])

\* sqlite3.IntegrityError of a plain INSERT of batch into table c: a primary
\* key of the batch is in the table or twice in the batch.
Conflicts(c, table, batch) ==
    \E i \in 1..Len(batch) :
        \/ \E j \in 1..Len(table) : PrimaryKey(c, table[j]) = PrimaryKey(c, batch[i])
        \/ \E j \in 1..Len(batch) :
              j # i /\ PrimaryKey(c, batch[j]) = PrimaryKey(c, batch[i])

\* The command after store.insert_<c>(batch) with a plain INSERT; pc is the
\* step reached when the call returns.
Inserted(g, c, batch, pc) ==
    IF Conflicts(c, g.db[c], batch) THEN StoreRaised(g)
    ELSE [g EXCEPT !.pc = pc, !.db[c] = @ \o batch]

\* insert_channel_members on a table in rowid order.
RECURSIVE AppendOrIgnore(_, _, _)
AppendOrIgnore(c, table, batch) ==
    IF batch = <<>> THEN table
    ELSE AppendOrIgnore(c,
             IF Conflicts(c, table, <<Head(batch)>>) THEN table
             ELSE Append(table, Head(batch)),
             Tail(batch))

\* set_workspace_meta: INSERT OR REPLACE of the keys of the workspace.
set_workspace_meta(meta, workspace_id, config) ==
    {m \in meta : m.workspace_id # workspace_id}
        \cup {[workspace_id |-> workspace_id, seed |-> config.seed, requested |-> config]}

\* The position in the try block once done_m messages and done_f files are
\* written.
Stage(config, done_m, done_f) ==
    IF done_m < config.messages THEN "messages"
    ELSE IF done_f < config.files THEN "files" ELSE "closing"

UserIds(g) == [i \in 1..Len(g.user_list) |-> g.user_list[i].id]
ChannelIds(g) == [i \in 1..Len(g.channel_list) |-> g.channel_list[i].id]

GenStep(g) ==
    /\ gen' = g
    /\ UNCHANGED <<coll, store, walk, resp, codec>>

\* The command is started.
generate ==
    /\ gen.pc \in {"idle", "rejected", "failed", "done"}
    /\ gen.run < MaxRuns
    /\ \E config \in Configs, fresh \in (IF gen.run = 0 THEN {TRUE} ELSE BOOLEAN) :
          GenStep(Invoked(gen, config, IF fresh THEN NoDb ELSE gen.db, fresh))

\* store = SQLiteStore(db): the file and its schema are created.
generate_open_store ==
    /\ gen.pc = "configured"
    /\ GenStep([gen EXCEPT !.pc = "opened", !.opened = TRUE, !.db.exists = TRUE])

\* generate_workspace, insert_workspace, set_workspace_meta
WorkspaceWritten(g, workspace_obj) ==
    IF Conflicts("workspaces", g.db.workspaces, <<workspace_obj>>) THEN StoreRaised(g)
    ELSE [g EXCEPT !.pc = "workspace",
                   !.workspace_obj = Some(workspace_obj),
                   !.db.workspaces = Append(@, workspace_obj),
                   !.db.workspace_meta = set_workspace_meta(@, workspace_obj.id, g.config)]
generate_write_workspace ==
    /\ gen.pc = "opened"
    /\ GenStep(WorkspaceWritten(gen, generate_workspace(gen.config)))

\* generate_users, insert_users
UsersWritten(g, user_list) ==
    Inserted([g EXCEPT !.user_list = user_list,
                       !.rng = Some(Skip(@[1], g.config.users)),
                       !.faker = Some(Skip(@[1], 2 * g.config.users))],
             "users", user_list, "users")
generate_write_users ==
    /\ gen.pc = "workspace"
    /\ GenStep(UsersWritten(gen, generate_users(gen.config, gen.workspace_obj[1].id,
                                                gen.rng[1], gen.faker[1])))

\* generate_channels, insert_channels
ChannelsWritten(g, channel_list) ==
    Inserted([g EXCEPT !.channel_list = channel_list,
                       !.rng = Some(Skip(@[1], g.config.channels)),
                       !.faker = Some(Skip(@[1], 2 * g.config.channels))],
             "channels", channel_list, "channels")
generate_write_channels ==
    /\ gen.pc = "users"
    /\ GenStep(ChannelsWritten(gen, generate_channels(gen.config, gen.workspace_obj[1].id,
                                                      gen.rng[1], gen.faker[1])))

\* generate_channel_members, insert_channel_members
MembersWritten(g, members) ==
    [g EXCEPT !.pc = Stage(g.config, 0, 0),
              !.rng = Some(members.rng),
              !.db.channel_members = AppendOrIgnore("channel_members", @, members.rows)]
generate_write_channel_members ==
    /\ gen.pc = "channels"
    /\ GenStep(MembersWritten(gen,
           generate_channel_members(gen.config, gen.workspace_obj[1].id, gen.user_list,
                                    gen.channel_list, gen.rng[1])))

\* The loop over generate_messages up to the next insert_messages: the
\* buffer is written when it holds batch_size messages or the stream ends.
MessagesWritten(g, n) ==
    Inserted([g EXCEPT !.messages_done = @ + n,
                       !.rng = Some(Skip(@[1], 6 * n)),
                       !.faker = Some(Skip(@[1], n))],
             "messages",
             generate_messages(g.config, g.workspace_obj[1].id, UserIds(g), ChannelIds(g),
                               g.rng[1], g.faker[1], g.messages_done, n),
             Stage(g.config, g.messages_done + n, 0))
generate_write_messages ==
    /\ gen.pc = "messages"
    /\ GenStep(MessagesWritten(gen, Min(gen.config.batch_size,
                                        gen.config.messages - gen.messages_done)))

\* The loop over generate_files up to the next insert_files.
FilesWritten(g, n) ==
    Inserted([g EXCEPT !.files_done = @ + n,
                       !.rng = Some(Skip(@[1], 6 * n)),
                       !.faker = Some(Skip(@[1], n))],
             "files",
             generate_files(g.config, g.workspace_obj[1].id, UserIds(g), ChannelIds(g),
                            g.rng[1], g.faker[1], g.files_done, n),
             Stage(g.config, g.config.messages, g.files_done + n))
generate_write_files ==
    /\ gen.pc = "files"
    /\ GenStep(FilesWritten(gen, Min(gen.config.batch_size,
                                     gen.config.files - gen.files_done)))

\* finally: store.close(); the command returns.
generate_close ==
    /\ gen.pc = "closing"
    /\ GenStep([gen EXCEPT !.pc = "done", !.opened = FALSE, !.exit = Some(0)])

InitGen ==
    /\ coll = "messages"
    /\ store = {}
    /\ walk = IdleWalk
    /\ resp = NoResp
    /\ codec = NoCodec
    /\ gen = IdleGen

NextGen ==
    \/ generate
    \/ generate_open_store
    \/ generate_write_workspace
    \/ generate_write_users
    \/ generate_write_channels
    \/ generate_write_channel_members
    \/ generate_write_messages
    \/ generate_write_files
    \/ generate_close

SpecGen == InitGen /\ [][NextGen]_vars

(***************************************************************************)
(* generator.py called as a library: a session holds one seed, one         *)
(* namespace and the random sources rng and faker seeded from the seed,    *)
(* and calls generate_users, generate_channels, generate_messages and      *)
(* generate_files in any order.  drawn counts the ids each stream has      *)
(* handed out in the session; returned keeps, per stream, the id sequences *)
(* the calls returned with the number of ids drawn before them from the    *)
(* other streams.                                                          *)
(***************************************************************************)

MaxCalls == 3
MaxCount == 2

Streams == {"users", "channels", "messages", "files"}

IdsOfRows(rows) == [i \in 1..Len(rows) |-> rows[i].id]

DrawnElsewhere(g, stream) ==
    (g.drawn.users + g.drawn.channels + g.drawn.messages + g.drawn.files) - g.drawn[stream]

\* The session after a call that returned rows from the id stream named,
\* having made k draws of rng and f of faker and n of the id stream.
Called(g, stream, rows, k, f, n) ==
    [g EXCEPT !.calls = @ + 1,
              !.rng = Skip(@, k),
              !.faker = Skip(@, f),
              !.drawn[stream] = @ + n,
              !.returned[stream] =
                  @ \cup {[ids |-> IdsOfRows(rows), before |-> DrawnElsewhere(g, stream)]}]

SessionStep(g) ==
    /\ gen.pc = "session"
    /\ gen.calls < MaxCalls
    /\ gen' = g
    /\ UNCHANGED <<coll, store, walk, resp, codec>>

\* The configuration a call passes: the session's seed and the counts asked.
CallConfig(g, users, channels, dm_channels, messages, files) ==
    [BaseFull EXCEPT !.seed = g.seed, !.users = users, !.channels = channels,
                     !.dm_channels = dm_channels, !.messages = messages,
                     !.files = files]

\* The user and channel ids a caller passes to generate_messages and
\* generate_files.
CallerUserIds == <<ID_a, ID_b>>
CallerChannelIds == <<ID_c>>

call_generate_users ==
    \E n \in 0..MaxCount :
        SessionStep(Called(gen, "users",
            generate_users(CallConfig(gen, n, 0, 0, 0, 0), gen.workspace_id,
                           gen.rng, gen.faker),
            n, 2 * n, n))

call_generate_channels ==
    \E n \in 0..MaxCount, dm \in 0..1 :
        SessionStep(Called(gen, "channels",
            generate_channels(CallConfig(gen, 0, n, dm, 0, 0), gen.workspace_id,
                              gen.rng, gen.faker),
            n, 2 * n, n + dm))

call_generate_messages ==
    \E n \in 0..MaxCount :
        SessionStep(Called(gen, "messages",
            generate_messages(CallConfig(gen, 0, 0, 0, n, 0), gen.workspace_id,
                              CallerUserIds, CallerChannelIds, gen.rng, gen.faker, 0, n),
            6 * n, n, n))

call_generate_files ==
    \E n \in 0..MaxCount :
        SessionStep(Called(gen, "files",
            generate_files(CallConfig(gen, 0, 0, 0, 0, n), gen.workspace_id,
                           CallerUserIds, CallerChannelIds, gen.rng, gen.faker, 0, n),
            6 * n, n, 2 * n))

InitIds ==
    /\ coll = "messages"
    /\ store = {}
    /\ walk = IdleWalk
    /\ resp = NoResp
    /\ codec = NoCodec
    /\ \E seed \in {1, 2}, workspace_id \in {WS1, WS2} :
          gen = [pc |-> "session", seed |-> seed, workspace_id |-> workspace_id,
                 rng |-> Random(seed), faker |-> Random(seed), calls |-> 0,
                 drawn |-> [s \in Streams |-> 0],
                 returned |-> [s \in Streams |-> {}]]

NextIds ==
    \/ call_generate_users
    \/ call_generate_channels
    \/ call_generate_messages
    \/ call_generate_files

SpecIds == InitIds /\ [][NextIds]_vars

(***************************************************************************)
(* generate_channel_members on the inputs generate can pass to it: a pool  *)
(* of 0..MaxUsers users, member bounds that the validation accepts, one    *)
(* ordinary channel and, when there is a user, one im and one mpim         *)
(* channel.  The members generated are written with                        *)
(* insert_channel_members to a store that other insert_channel_members     *)
(* calls write to as well.                                                 *)
(***************************************************************************)

MaxUsers == 4
MaxMemberBound == 4

\* The user pool of n users and the channel list.
PoolUsers(n) == [i \in 1..n |-> [id |-> <<96 + i>>, workspace_id |-> WS1]]
PoolChannels(n) ==
    <<[id |-> ID_a, workspace_id |-> WS1, channel_type |-> "public"]>>
        \o (IF n = 0 THEN <<>>
            ELSE <<[id |-> ID_b, workspace_id |-> WS1, channel_type |-> "im"],
                   [id |-> ID_c, workspace_id |-> WS1, channel_type |-> "mpim"]>>)

\* The member bounds of a configuration: all at least 1, min at most max.
MemberBounds ==
    {[BaseFull EXCEPT !.channel_members_min = a, !.channel_members_max = b,
                      !.mpdm_members_min = c, !.mpdm_members_max = d] :
        a, b, c, d \in 1..MaxMemberBound}

MembersStep(g) ==
    /\ gen' = g
    /\ UNCHANGED <<coll, store, walk, resp, codec>>

call_generate_channel_members ==
    /\ gen.pc = "members"
    /\ MembersStep([gen EXCEPT
           !.pc = "generated",
           !.out = generate_channel_members(gen.config, WS1, gen.users,
                                            gen.channels, gen.rng)])

\* store.insert_channel_members(channel_members)
write_channel_members ==
    /\ gen.pc = "generated"
    /\ gen' = [gen EXCEPT !.pc = "written"]
    /\ store' = InsertMemberRows(store, gen.out.rows)
    /\ UNCHANGED <<coll, walk, resp, codec>>

InitMembers ==
    /\ coll = "channel_members"
    /\ store = {}
    /\ walk = IdleWalk
    /\ resp = NoResp
    /\ codec = NoCodec
    /\ \E config \in {c \in MemberBounds : ~BadParameter(c)},
          n \in 0..MaxUsers, seed \in {1, 2} :
          gen = [pc |-> "members", config |-> config, users |-> PoolUsers(n),
                 channels |-> PoolChannels(n), rng |-> Random(seed),
                 out |-> [rows |-> <<>>, rng |-> Random(seed)]]

NextMembers ==
    \/ call_generate_channel_members
    \/ write_channel_members
    \/ insert_channel_members

SpecMembers == InitMembers /\ [][NextMembers]_vars

\* ---------------------------------------------------------------------------
\* Plugin hooks: PluginRegistry.apply and the conversion of the mapping the
\* hooks return into the typed record (generate_users, generate_messages).
\* A mapping is a function from field names to values; a value carries its
\* Python type, since neither cast() nor the dataclasses check one.

MaxHooks == 3

StrValue(s) == [type |-> "str", value |-> s]
IntValue(n) == [type |-> "int", value |-> <<n>>]
NoneValue == [type |-> "NoneType", value |-> <<>>]

\* payload[k] = v on a copy of the mapping; the mapping without the key k.
Put(m, k, v) == [x \in DOMAIN m \cup {k} |-> IF x = k THEN v ELSE m[x]]
Drop(m, k) == [x \in DOMAIN m \ {k} |-> m[x]]

\* The payload dict generate_users builds for a user, and the one
\* generate_messages builds for a message.
UserPayload(u) ==
    [id |-> StrValue(u.id), workspace_id |-> StrValue(u.workspace_id),
     name |-> StrValue(<<u.name>>), email |-> StrValue(u.email),
     title |-> StrValue(<<u.title>>), is_bot |-> IntValue(u.is_bot)]

MessagePayload(m) ==
    [id |-> StrValue(m.id), workspace_id |-> StrValue(m.workspace_id),
     channel_id |-> StrValue(m.channel_id), user_id |-> StrValue(m.user_id),
     ts |-> IntValue(m.ts), text |-> StrValue(m.text), thread_ts |-> NoneValue,
     reply_count |-> IntValue(m.reply_count),
     reactions_json |-> StrValue(<<m.reactions_json>>)]

\* The fields the conversion reads with payload[...], and those it reads with
\* payload.get(...).
RecordFields(kind) ==
    IF kind = "user"
    THEN {"id", "workspace_id", "name", "email", "title", "is_bot"}
    ELSE {"id", "workspace_id", "channel_id", "user_id", "ts", "text",
          "reply_count", "reactions_json"}

OptionalFields(kind) == IF kind = "user" THEN {} ELSE {"thread_ts"}

\* The annotated types of the fields of User and of Message.
FieldTypes(kind, field) ==
    IF field \in {"is_bot", "ts", "reply_count"} THEN {"int"}
    ELSE IF field = "thread_ts" THEN {"int", "NoneType"}
    ELSE {"str"}

\* User(id=cast(str, payload["id"]), ...), Message(...): a KeyError when a
\* key read with payload[...] is absent; cast() returns its argument as it is.
ConvertPayload(kind, payload) ==
    IF RecordFields(kind) \subseteq DOMAIN payload
    THEN [record |-> Some([f \in RecordFields(kind) \cup OptionalFields(kind) |->
                              IF f \in DOMAIN payload THEN payload[f]
                              ELSE NoneValue]),
          error |-> None]
    ELSE [record |-> None, error |-> Some("KeyError")]

\* The hooks a plugin may register: each is a function from mappings to
\* mappings.
TextField(kind) == IF kind = "user" THEN "name" ELSE "text"
IntField(kind) == IF kind = "user" THEN "is_bot" ELSE "ts"

HookKeep == [op |-> "keep", field |-> "", value |-> NoneValue]
HookSet(f, v) == [op |-> "set", field |-> f, value |-> v]
HookAppend(f) == [op |-> "append", field |-> f, value |-> StrValue(<<66>>)]
HookDrop(f) == [op |-> "drop", field |-> f, value |-> NoneValue]

Hooks(kind) ==
    {HookKeep,
     HookSet(TextField(kind), StrValue(<<65>>)),
     HookAppend(TextField(kind)),
     HookSet(IntField(kind), StrValue(<<121>>)),
     HookSet("extra", IntValue(1)),
     HookDrop(TextField(kind))}
    \cup (IF kind = "user" THEN {}
          ELSE {HookDrop("thread_ts"), HookSet("thread_ts", IntValue(5))})

CallHook(hook, payload) ==
    CASE hook.op = "keep" -> payload
      [] hook.op = "set" -> Put(payload, hook.field, hook.value)
      [] hook.op = "append" ->
            IF hook.field \in DOMAIN payload
            THEN Put(payload, hook.field,
                     [type |-> payload[hook.field].type,
                      value |-> payload[hook.field].value \o hook.value.value])
            ELSE payload
      [] hook.op = "drop" -> Drop(payload, hook.field)

\* A faulty variant of the loop of apply: every hook is handed the mapping
\* apply was called with.
ApplyToOriginal(hooks, payload, result, i) == CallHook(hooks[i], payload)

\* One turn of the loop of PluginRegistry.apply: result = hook(result).
ApplyHook(hooks, payload, result, i) == CallHook(hooks[i], result)

\* PluginRegistry.apply as a whole.
RECURSIVE apply(_, _)
apply(hooks, payload) ==
    IF hooks = <<>> THEN payload
    ELSE apply(Tail(hooks), CallHook(Head(hooks), payload))

HooksStep(g) ==
    /\ gen' = g
    /\ UNCHANGED <<coll, store, walk, resp, codec>>

\* A plugin's register(registry) appends a hook to the list of the kind.
register_hook ==
    /\ gen.pc = "registry"
    /\ Len(gen.hooks) < MaxHooks
    /\ \E hook \in Hooks(gen.kind) :
          HooksStep([gen EXCEPT !.hooks = Append(@, hook)])

\* plugins.on_user(payload) / plugins.on_message(payload): apply starts with
\* result = payload.
on_entity ==
    /\ gen.pc = "registry"
    /\ HooksStep([gen EXCEPT !.pc = "apply", !.result = gen.payload])

\* The next hook of the list is called; received and called record what it
\* was handed and which hook it was.
apply_hook ==
    /\ gen.pc = "apply"
    /\ gen.i <= Len(gen.hooks)
    /\ HooksStep([gen EXCEPT
           !.i = @ + 1,
           !.received = Append(@, gen.result),
           !.called = Append(@, gen.hooks[gen.i]),
           !.result = ApplyHook(gen.hooks, gen.payload, gen.result, gen.i)])

\* apply returns and the typed record is built from what it returned.
build_record ==
    /\ gen.pc = "apply"
    /\ gen.i > Len(gen.hooks)
    /\ HooksStep([gen EXCEPT
           !.pc = "done",
           !.out = ConvertPayload(gen.kind, gen.result)])

InitHooks ==
    /\ coll = "users"
    /\ store = {}
    /\ walk = IdleWalk
    /\ resp = NoResp
    /\ codec = NoCodec
    /\ \E kind \in {"user", "message"}, seed \in {1, 2} :
          gen = [pc |-> "registry", kind |-> kind, hooks |-> <<>>,
                 payload |->
                     IF kind = "user"
                     THEN UserPayload(generate_users(BaseFull, WS1, Random(seed),
                                                     Random(seed))[1])
                     ELSE MessagePayload(generate_messages(
                              BaseFull, WS1, CallerUserIds, CallerChannelIds,
                              Random(seed), Random(seed), 0, 1)[1]),
                 i |-> 1, result |-> << >>, received |-> <<>>, called |-> <<>>,
                 out |-> [record |-> None, error |-> None]]

NextHooks ==
    \/ register_hook
    \/ on_entity
    \/ apply_hook
    \/ build_record

SpecHooks == InitHooks /\ [][NextHooks]_vars

\* ---------------------------------------------------------------------------
\* The two buffered loops of the generate command: the records a generator
\* yields are appended to a buffer that is inserted and emptied when it holds
\* batch_size records, and once more after the loop when it is not empty.

MaxStream == 4
MaxBatch == 3

StreamConfigs ==
    {[BaseFull EXCEPT !.messages = m, !.files = f, !.batch_size = b] :
        m \in 0..MaxStream, f \in 0..MaxStream, b \in 1..MaxBatch}

\* A faulty variant of the test of the loop: the buffer is flushed only when
\* it holds more than batch_size records.
BufferOverFull(buffer, batch_size) == Len(buffer) > batch_size

\* if len(message_buffer) >= config.batch_size
BufferFull(buffer, batch_size) == Len(buffer) >= batch_size

\* store.insert_messages(buffer) / store.insert_files(buffer) on the tables
\* of the run, whose ids are new: the rows are appended in the order of the
\* buffer; batches records the size of each batch inserted.
Flushed(g, table, buffer) ==
    [g EXCEPT !.db[table] = @ \o buffer,
              !.batches[table] = Append(@, Len(buffer))]

BatchStep(g) ==
    /\ gen' = g
    /\ UNCHANGED <<coll, store, walk, resp, codec>>

\* The generator yields the next message and the loop appends it.
append_message ==
    /\ gen.pc = "messages"
    /\ Len(gen.yielded.messages) < gen.config.messages
    /\ BatchStep([gen EXCEPT
           !.pc = "message_appended",
           !.rng = Skip(@, 6),
           !.faker = Skip(@, 1),
           !.yielded.messages =
               @ \o generate_messages(gen.config, WS1, CallerUserIds, CallerChannelIds,
                                      gen.rng, gen.faker, Len(@), 1),
           !.message_buffer =
               @ \o generate_messages(gen.config, WS1, CallerUserIds, CallerChannelIds,
                                      gen.rng, gen.faker,
                                      Len(gen.yielded.messages), 1)])

\* The test after the append: insert and empty the buffer when it is full.
flush_messages ==
    /\ gen.pc = "message_appended"
    /\ BatchStep(IF BufferFull(gen.message_buffer, gen.config.batch_size)
                 THEN [Flushed(gen, "messages", gen.message_buffer) EXCEPT
                          !.pc = "messages", !.message_buffer = <<>>]
                 ELSE [gen EXCEPT !.pc = "messages"])

\* The generator is exhausted: the remainder is inserted when there is one.
finish_messages ==
    /\ gen.pc = "messages"
    /\ Len(gen.yielded.messages) = gen.config.messages
    /\ BatchStep(IF gen.message_buffer # <<>>
                 THEN [Flushed(gen, "messages", gen.message_buffer) EXCEPT
                          !.pc = "files"]
                 ELSE [gen EXCEPT !.pc = "files"])

append_file ==
    /\ gen.pc = "files"
    /\ Len(gen.yielded.files) < gen.config.files
    /\ BatchStep([gen EXCEPT
           !.pc = "file_appended",
           !.rng = Skip(@, 6),
           !.faker = Skip(@, 1),
           !.yielded.files =
               @ \o generate_files(gen.config, WS1, CallerUserIds, CallerChannelIds,
                                   gen.rng, gen.faker, Len(@), 1),
           !.file_buffer =
               @ \o generate_files(gen.config, WS1, CallerUserIds, CallerChannelIds,
                                   gen.rng, gen.faker, Len(gen.yielded.files), 1)])

flush_files ==
    /\ gen.pc = "file_appended"
    /\ BatchStep(IF BufferFull(gen.file_buffer, gen.config.batch_size)
                 THEN [Flushed(gen, "files", gen.file_buffer) EXCEPT
                          !.pc = "files", !.file_buffer = <<>>]
                 ELSE [gen EXCEPT !.pc = "files"])

finish_files ==
    /\ gen.pc = "files"
    /\ Len(gen.yielded.files) = gen.config.files
    /\ BatchStep(IF gen.file_buffer # <<>>
                 THEN [Flushed(gen, "files", gen.file_buffer) EXCEPT !.pc = "done"]
                 ELSE [gen EXCEPT !.pc = "done"])

\* The command after store.insert_channel_members, with both buffers still to
\* be created.
InitBatch ==
    /\ coll = "messages"
    /\ store = {}
    /\ walk = IdleWalk
    /\ resp = NoResp
    /\ codec = NoCodec
    /\ \E config \in {c \in StreamConfigs : ~BadParameter(c)}, seed \in {1, 2} :
          gen = [pc |-> "messages", config |-> config,
                 rng |-> Random(seed), faker |-> Random(seed),
                 rng0 |-> Random(seed), faker0 |-> Random(seed),
                 yielded |-> [messages |-> <<>>, files |-> <<>>],
                 message_buffer |-> <<>>, file_buffer |-> <<>>,
                 db |-> [messages |-> <<>>, files |-> <<>>],
                 batches |-> [messages |-> <<>>, files |-> <<>>]]

NextBatch ==
    \/ append_message
    \/ flush_messages
    \/ finish_messages
    \/ append_file
    \/ flush_files
    \/ finish_files

SpecBatch == InitBatch /\ [][NextBatch]_vars

\* ---------------------------------------------------------------------------
\* export-jsonl and import-jsonl: the files of an export directory and the
\* conversions between table rows, JSON text and typed records.

\* The column names that are not cursor fields.
K_workspace_id == <<119, 111, 114, 107, 115, 112, 97, 99, 101, 95, 105, 100>>
K_name == <<110, 97, 109, 101>>
K_email == <<101, 109, 97, 105, 108>>
K_title == <<116, 105, 116, 108, 101>>
K_is_bot == <<105, 115, 95, 98, 111, 116>>
K_is_private == <<105, 115, 95, 112, 114, 105, 118, 97, 116, 101>>
K_channel_type == <<99, 104, 97, 110, 110, 101, 108, 95, 116, 121, 112, 101>>
K_topic == <<116, 111, 112, 105, 99>>
K_text == <<116, 101, 120, 116>>
K_thread_ts == <<116, 104, 114, 101, 97, 100, 95, 116, 115>>
K_reply_count == <<114, 101, 112, 108, 121, 95, 99, 111, 117, 110, 116>>
K_reactions_json == <<114, 101, 97, 99, 116, 105, 111, 110, 115, 95, 106, 115, 111, 110>>
K_size == <<115, 105, 122, 101>>
K_mimetype == <<109, 105, 109, 101, 116, 121, 112, 101>>
K_created_ts == <<99, 114, 101, 97, 116, 101, 100, 95, 116, 115>>
K_message_id == <<109, 101, 115, 115, 97, 103, 101, 95, 105, 100>>
K_url == <<117, 114, 108>>
K_created_at == <<99, 114, 101, 97, 116, 101, 100, 95, 97, 116>>
K_workspace == <<119, 111, 114, 107, 115, 112, 97, 99, 101>>
K_meta == <<109, 101, 116, 97>>

\* The columns of each table in the order of the schema, each with the kind
\* of value the typed record holds: a str, an int, or an optional one.
Column(field, key, kind) == [field |-> field, key |-> key, kind |-> kind]
Columns(c) ==
    CASE c = "workspaces" ->
           <<Column("id", K_id, "str"), Column("name", K_name, "str"),
             Column("created_at", K_created_at, "int")>>
      [] c = "users" ->
           <<Column("id", K_id, "str"),
             Column("workspace_id", K_workspace_id, "str"),
             Column("name", K_name, "str"), Column("email", K_email, "str"),
             Column("title", K_title, "str"), Column("is_bot", K_is_bot, "int")>>
      [] c = "channels" ->
           <<Column("id", K_id, "str"),
             Column("workspace_id", K_workspace_id, "str"),
             Column("name", K_name, "str"),
             Column("is_private", K_is_private, "int"),
             Column("channel_type", K_channel_type, "str"),
             Column("topic", K_topic, "str")>>
      [] c = "channel_members" ->
           <<Column("channel_id", K_channel_id, "str"),
             Column("workspace_id", K_workspace_id, "str"),
             Column("user_id", K_user_id, "str")>>
      [] c = "messages" ->
           <<Column("id", K_id, "str"),
             Column("workspace_id", K_workspace_id, "str"),
             Column("channel_id", K_channel_id, "str"),
             Column("user_id", K_user_id, "str"), Column("ts", K_ts, "int"),
             Column("text", K_text, "str"),
             Column("thread_ts", K_thread_ts, "optint"),
             Column("reply_count", K_reply_count, "int"),
             Column("reactions_json", K_reactions_json, "str")>>
      [] c = "files" ->
           <<Column("id", K_id, "str"),
             Column("workspace_id", K_workspace_id, "str"),
             Column("user_id", K_user_id, "str"), Column("name", K_name, "str"),
             Column("size", K_size, "int"),
             Column("mimetype", K_mimetype, "str"),
             Column("created_ts", K_created_ts, "int"),
             Column("channel_id", K_channel_id, "str"),
             Column("message_id", K_message_id, "optstr"),
             Column("url", K_url, "str")>>

\* dict(row) of a sqlite3.Row: the columns in schema order, NULL as None.
ColumnValue(kind, v) ==
    CASE kind = "str" -> JStr(v)
      [] kind = "int" -> JInt(v)
      [] kind = "optint" -> IF v = None THEN JNull ELSE JInt(v[1])
      [] kind = "optstr" -> IF v = None THEN JNull ELSE JStr(v[1])
RowDict(c, r) ==
    JObj([k \in 1..Len(Columns(c)) |->
            <<Columns(c)[k].key, ColumnValue(Columns(c)[k].kind, r[Columns(c)[k].field])>>])

\* json.dumps(row, ensure_ascii=False) with the default separators ", " and
\* ": ".
RECURSIVE JsonDumpsSpaced(_)
RECURSIVE SpacedItems(_)
SpacedItems(items) ==
    IF items = <<>> THEN <<>>
    ELSE JsonString(Head(items)[1]) \o <<58, 32>> \o JsonDumpsSpaced(Head(items)[2])
            \o (IF Len(items) = 1 THEN <<>> ELSE <<44, 32>> \o SpacedItems(Tail(items)))
JsonDumpsSpaced(v) ==
    IF v.t = "obj" THEN <<123>> \o SpacedItems(v.s) \o <<125>> ELSE JsonDumps(v)

\* json.dump(payload, f, indent=2) of nested dicts.
Spaces(n) == [i \in 1..n |-> 32]
RECURSIVE JsonDumpsIndent(_, _)
RECURSIVE IndentItems(_, _)
IndentItems(items, level) ==
    IF items = <<>> THEN <<>>
    ELSE Spaces(level) \o JsonString(Head(items)[1]) \o <<58, 32>>
            \o JsonDumpsIndent(Head(items)[2], level)
            \o (IF Len(items) = 1 THEN <<>> ELSE <<44>>) \o <<10>>
            \o IndentItems(Tail(items), level)
JsonDumpsIndent(v, level) ==
    IF v.t = "obj" /\ v.s # <<>>
    THEN <<123, 10>> \o IndentItems(v.s, level + 2) \o Spaces(level) \o <<125>>
    ELSE JsonDumps(v)
dump_json(payload) == JsonDumpsIndent(payload, 0)

\* dump_jsonl: one line of JSON and a newline for each row.
RECURSIVE dump_jsonl(_)
dump_jsonl(rows) ==
    IF rows = <<>> THEN <<>>
    ELSE JsonDumpsSpaced(Head(rows)) \o <<10>> \o dump_jsonl(Tail(rows))

\* The lines of a text file: the text is cut at every newline (a carriage
\* return counts as one, the file being read in text mode).
LineEnds(text) == {i \in 1..Len(text) : text[i] \in {10, 13}}
KthEnd(ends, k) == CHOOSE p \in ends : Cardinality({q \in ends : q < p}) = k - 1
LineFrom(text, ends, k) ==
    SubSeq(text,
           IF k = 1 THEN 1 ELSE KthEnd(ends, k - 1) + 1,
           IF k > Cardinality(ends) THEN Len(text) ELSE KthEnd(ends, k) - 1)
LinesAt(text, ends) == [k \in 1..(Cardinality(ends) + 1) |-> LineFrom(text, ends, k)]
Lines(text) == LinesAt(text, LineEnds(text))

\* str.strip() of a line.
RECURSIVE StripLeft(_)
StripLeft(s) ==
    IF s # <<>> /\ Head(s) \in {32, 9, 10, 13} THEN StripLeft(Tail(s)) ELSE s
RECURSIVE StripRight(_)
StripRight(s) ==
    IF s # <<>> /\ s[Len(s)] \in {32, 9, 10, 13}
    THEN StripRight(SubSeq(s, 1, Len(s) - 1)) ELSE s
Strip(s) == StripRight(StripLeft(s))

\* load_jsonl: json.loads of every line that is not blank, in order; each
\* element is [ok, v], a line that is not JSON making the iteration raise
\* when it is reached.
IsNotBlank(s) == s # <<>>
NonBlank(lines) == SelectSeq([k \in 1..Len(lines) |-> Strip(lines[k])], IsNotBlank)
ParsedLines(lines) == [k \in 1..Len(lines) |-> JsonLoads(lines[k])]
load_jsonl(text) == ParsedLines(NonBlank(Lines(text)))

\* The conversions of import_jsonl.  Each returns [ok, v]; ok is FALSE when
\* the code raises (BadParameter for a missing field, ValueError for int()).
Converted(v) == [ok |-> TRUE, v |-> v]
ConversionError == [ok |-> FALSE, v |-> <<>>]

\* row.get(key, default): the value of the key, the default when absent.
RowGet(data, key, default) == IF HasKey(data, key) THEN GetKey(data, key) ELSE default

\* str(value) of a value that JSON text can hold as a scalar.
PyStr(v) ==
    IF v.t = "str" THEN v.s
    ELSE IF v.t = "int" THEN IntToStr(v.n)
    ELSE IF v.n = 1 THEN <<84, 114, 117, 101>> ELSE <<70, 97, 108, 115, 101>>

\* int(value): an int or a bool as it is, a str when it is a decimal numeral.
IsNumeral(s) ==
    /\ s # <<>>
    /\ \A k \in 1..Len(s) : IsDigit(s[k])
PyInt(v) ==
    IF v.t \in {"int", "bool"} THEN Converted(v.n)
    ELSE IF v.t = "str" /\ IsNumeral(Strip(v.s)) THEN Converted(ParseDigits(Strip(v.s), 1, 0).n)
    ELSE ConversionError

GetStrOf(v) == IF v.t = "null" THEN ConversionError ELSE Converted(PyStr(v))
GetIntOf(v) == IF v.t = "null" THEN ConversionError ELSE PyInt(v)
GetOptionalIntOf(v) ==
    IF v.t = "null" THEN Converted(None)
    ELSE IF PyInt(v).ok THEN Converted(Some(PyInt(v).v))
    ELSE ConversionError

_get_str(data, key, default) == GetStrOf(RowGet(data, key, default))
_get_int(data, key) == GetIntOf(RowGet(data, key, JNull))
_get_optional_int(data, key) == GetOptionalIntOf(RowGet(data, key, JNull))

\* if x: of a value read from JSON.
Truthy(v) ==
    CASE v.t = "null" -> FALSE
      [] v.t \in {"int", "bool"} -> v.n # 0
      [] v.t \in {"str", "obj", "arr"} -> v.s # <<>>
      [] OTHER -> TRUE

\* message_id=_get_str(data, "message_id") if data.get("message_id") else None
GetMessageId(data) ==
    IF Truthy(RowGet(data, K_message_id, JNull))
    THEN Converted(Some(PyStr(RowGet(data, K_message_id, JNull))))
    ELSE Converted(None)

\* The default of a column of the typed record import_jsonl builds:
\* workspace_id falls back on the workspace of the import and channel_type
\* on "public".
ColumnDefault(key, workspace_id) ==
    IF key = K_workspace_id THEN JStr(workspace_id)
    ELSE IF key = K_channel_type THEN JStr(T_public)
    ELSE JNull

FieldOf(col, data, workspace_id) ==
    CASE col.kind = "str" -> _get_str(data, col.key, ColumnDefault(col.key, workspace_id))
      [] col.kind = "int" -> _get_int(data, col.key)
      [] col.kind = "optint" -> _get_optional_int(data, col.key)
      [] col.kind = "optstr" -> GetMessageId(data)

\* data = row if isinstance(row, dict) else {}
AsDict(v) == IF v.t = "obj" THEN v ELSE JObj(<<>>)

\* User(...), Channel(...), ..., File(...) from a row of the file: [ok, v].
FieldsOf(c, data, workspace_id) ==
    [k \in 1..Len(Columns(c)) |-> FieldOf(Columns(c)[k], data, workspace_id)]
FieldIndex(c, f) == CHOOSE k \in 1..Len(Columns(c)) : Columns(c)[k].field = f
RecordOfFields(c, fields) ==
    IF \E k \in 1..Len(fields) : ~fields[k].ok THEN ConversionError
    ELSE Converted([f \in {Columns(c)[k].field : k \in 1..Len(Columns(c))} |->
                       fields[FieldIndex(c, f)].v])
TypedRecord(c, data, workspace_id) ==
    RecordOfFields(c, FieldsOf(c, AsDict(data), workspace_id))

\* gzip.open(path, "wt") and gzip.open(path, "rt"): the compression is kept
\* abstract, as the text behind the two magic bytes of a gzip member.
Gzip(text) == <<31, 139>> \o text
Gunzip(data) ==
    IF Len(data) >= 2 /\ data[1] = 31 /\ data[2] = 139
    THEN Converted(SubSeq(data, 3, Len(data)))
    ELSE ConversionError

\* An export directory <out>/<workspace id>: workspace.json, summary.json and
\* for each table <table>.jsonl and <table>.jsonl.gz, each absent or present.
NoFiles == [c \in Collections |-> None]
NoDir == [exists |-> FALSE, workspace_json |-> None, summary_json |-> None,
          plain |-> NoFiles, gz |-> NoFiles]
Workspaces == {WS1, WS2}
NoRoot == [exists |-> FALSE, dirs |-> [w \in Workspaces |-> NoDir]]

\* The rows of a table that belong to a workspace.
RowsOf(db, c, workspace_id) == {db[c][k] : k \in {j \in 1..Len(db[c]) : db[c][j].workspace_id = workspace_id}}

\* SQLiteStore(db): the file is created with its empty tables when missing.
Opened(db) == [db EXCEPT !.exists = TRUE]

\* latest_workspace_id: ORDER BY created_at DESC LIMIT 1.
LatestIndex(rows) ==
    CHOOSE k \in 1..Len(rows) :
        \A j \in 1..Len(rows) :
            IF rows[j].created_at = rows[k].created_at THEN k <= j
            ELSE rows[j].created_at < rows[k].created_at
latest_workspace_id(db) ==
    IF db.workspaces = <<>> THEN None
    ELSE Some(db.workspaces[LatestIndex(db.workspaces)].id)

\* get_workspace: the row as a dict, or None.
WorkspaceIndex(db, workspace_id) ==
    {k \in 1..Len(db.workspaces) : db.workspaces[k].id = workspace_id}
get_workspace(db, workspace_id) ==
    IF WorkspaceIndex(db, workspace_id) = {} THEN None
    ELSE Some(db.workspaces[CHOOSE k \in WorkspaceIndex(db, workspace_id) : TRUE])

\* The keys of a set of meta rows in ascending order.
RECURSIVE SortedKeys(_)
SortedKeys(keys) ==
    IF keys = {} THEN <<>>
    ELSE <<CHOOSE k \in keys : \A x \in keys \ {k} : StrLess(k, x)>>
            \o SortedKeys(keys \ {CHOOSE k \in keys : \A x \in keys \ {k} : StrLess(k, x)})

\* get_workspace_meta: key -> json.loads(value), the raw text when it is not
\* JSON.
MetaValue(raw, loaded) == IF loaded.ok THEN loaded.v ELSE JStr(raw)
MetaRow(meta, workspace_id, key) ==
    CHOOSE m \in meta : m.workspace_id = workspace_id /\ m.key = key
MetaPairs(meta, workspace_id, keys) ==
    [k \in 1..Len(keys) |->
        <<keys[k], MetaValue(MetaRow(meta, workspace_id, keys[k]).value,
                             JsonLoads(MetaRow(meta, workspace_id, keys[k]).value))>>]
get_workspace_meta(db, workspace_id) ==
    JObj(MetaPairs(db.workspace_meta, workspace_id,
                   SortedKeys({m.key : m \in {x \in db.workspace_meta :
                                                 x.workspace_id = workspace_id}})))

\* set_workspace_meta(workspace_id, meta) of import_jsonl: INSERT OR REPLACE of
\* (workspace_id, key, json.dumps(value)) for every key of the dict.
ImportedMeta(rows, workspace_id, meta) ==
    {m \in rows : ~(m.workspace_id = workspace_id /\ HasKey(meta, m.key))}
        \cup {[workspace_id |-> workspace_id, key |-> meta.s[k][1],
               value |-> JsonDumpsSpaced(GetKey(meta, meta.s[k][1]))] :
                 k \in 1..Len(meta.s)}

\* iter_users ... iter_files without a timestamp filter: the rows of the
\* workspace in the order of the query, each as a dict.
IterRows(c, sorted) == [k \in 1..Len(sorted) |-> RowDict(c, sorted[k])]
iter_rows(db, c, workspace_id) == IterRows(c, SortRows(c, RowsOf(db, c, workspace_id)))

\* The files export_jsonl writes: workspace.json, summary.json (its members
\* counts, channel_types and max, which no command reads back, are left out
\* of the text) and the five tables, with the suffix compress asks for.  A
\* file of the other suffix that the directory holds stays as it is.
WorkspaceJson(workspace) ==
    dump_json(JObj(<<(<<K_workspace, RowDict("workspaces", workspace)>>)>>))
SummaryJson(db, workspace) ==
    dump_json(JObj(<<(<<K_workspace, RowDict("workspaces", workspace)>>),
                     (<<K_meta, get_workspace_meta(db, workspace.id)>>)>>))

\* A faulty variant of the export of a table: only the first row is written.
TableFileFirstRow(db, c, workspace_id) ==
    dump_jsonl(FirstRows(iter_rows(db, c, workspace_id), 1))

TableFile(db, c, workspace_id) == dump_jsonl(iter_rows(db, c, workspace_id))

ExportedDir(dir, db, workspace, compress) ==
    [exists |-> TRUE,
     workspace_json |-> Some(WorkspaceJson(workspace)),
     summary_json |-> Some(SummaryJson(db, workspace)),
     plain |-> [c \in Collections |->
                  IF compress THEN dir.plain[c]
                  ELSE Some(TableFile(db, c, workspace.id))],
     gz |-> [c \in Collections |->
               IF compress THEN Some(Gzip(TableFile(db, c, workspace.id)))
               ELSE dir.gz[c]]]

\* workspace_id or store.latest_workspace_id(): an empty id counts as none.
ResolvedOr(workspace_id, fallback) ==
    IF workspace_id # None /\ workspace_id[1] # <<>> THEN workspace_id ELSE fallback

\* export_jsonl as a whole: [ok, root, workspace_id]; BadParameter when the
\* DB holds no workspace or not the one asked for.
export_result(db, root, workspace_id, compress) ==
    IF workspace_id = None \/ get_workspace(db, workspace_id[1]) = None
    THEN [ok |-> FALSE, root |-> root, workspace_id |-> workspace_id]
    ELSE [ok |-> TRUE,
          root |-> [exists |-> TRUE,
                    dirs |-> [root.dirs EXCEPT ![workspace_id[1]] =
                                 ExportedDir(@, db, get_workspace(db, workspace_id[1])[1],
                                             compress)]],
          workspace_id |-> workspace_id]

\* _pick: the .jsonl.gz file when there is one, else the .jsonl file; the
\* text of the file, [ok, v], ok FALSE when the file is missing or no gzip.
ReadPlain(file) == IF file = None THEN ConversionError ELSE Converted(file[1])
_pick(dir, c) == IF dir.gz[c] # None THEN Gunzip(dir.gz[c][1]) ELSE ReadPlain(dir.plain[c])
PickExists(dir, c) == dir.gz[c] # None \/ dir.plain[c] # None

\* A faulty variant of the inserts of the import: a plain INSERT in either
\* mode.
InsertBatchPlain(c, table, batch, ignore) ==
    IF Conflicts(c, table, batch) THEN [ok |-> FALSE, table |-> table]
    ELSE [ok |-> TRUE, table |-> table \o batch]

\* store.insert_<table>(buffer, ignore=ignore) on a table in rowid order:
\* [ok, table].  insert_channel_members always ignores.
InsertBatch(c, table, batch, ignore) ==
    IF ignore \/ c = "channel_members"
    THEN [ok |-> TRUE, table |-> AppendOrIgnore(c, table, batch)]
    ELSE IF Conflicts(c, table, batch) THEN [ok |-> FALSE, table |-> table]
    ELSE [ok |-> TRUE, table |-> table \o batch]

\* The loop of _import_users ... _import_files over the rows of the file: a
\* row that fails to parse or to convert raises, and what the buffer holds is
\* lost; a full buffer is inserted; the remainder is inserted at the end.
RECURSIVE ImportLoop(_, _, _, _, _, _, _)
AfterFlush(c, res, rest, batch_size, ignore, workspace_id) ==
    IF ~res.ok THEN res
    ELSE ImportLoop(c, res.table, rest, <<>>, batch_size, ignore, workspace_id)
AfterAppend(c, table, rest, buffer, batch_size, ignore, workspace_id) ==
    IF Len(buffer) >= batch_size
    THEN AfterFlush(c, InsertBatch(c, table, buffer, ignore), rest, batch_size, ignore,
                    workspace_id)
    ELSE ImportLoop(c, table, rest, buffer, batch_size, ignore, workspace_id)
AfterRecord(c, table, rest, buffer, batch_size, ignore, workspace_id, record) ==
    IF ~record.ok THEN [ok |-> FALSE, table |-> table]
    ELSE AfterAppend(c, table, rest, Append(buffer, record.v), batch_size, ignore,
                     workspace_id)
ImportLoop(c, table, rows, buffer, batch_size, ignore, workspace_id) ==
    IF rows = <<>>
    THEN (IF buffer # <<>> THEN InsertBatch(c, table, buffer, ignore)
          ELSE [ok |-> TRUE, table |-> table])
    ELSE IF ~Head(rows).ok THEN [ok |-> FALSE, table |-> table]
    ELSE AfterRecord(c, table, Tail(rows), buffer, batch_size, ignore, workspace_id,
                     TypedRecord(c, Head(rows).v, workspace_id))

\* One of the five _import_<table>(_pick(export_dir, <table>)) calls on the
\* state [ok, db] the calls before it left.
TableLoaded(st, c, res) == [ok |-> res.ok, db |-> [st.db EXCEPT ![c] = res.table]]
TableRead(st, c, text, batch_size, ignore, workspace_id) ==
    IF ~text.ok THEN [ok |-> FALSE, db |-> st.db]
    ELSE TableLoaded(st, c, ImportLoop(c, st.db[c], load_jsonl(text.v), <<>>, batch_size,
                                       ignore, workspace_id))
ImportTable(st, dir, c, batch_size, ignore, workspace_id) ==
    IF ~st.ok THEN st
    ELSE IF c = "channel_members" /\ ~PickExists(dir, c) THEN st
    ELSE TableRead(st, c, _pick(dir, c), batch_size, ignore, workspace_id)

ImportTables(st, dir, batch_size, ignore, workspace_id) ==
    ImportTable(
        ImportTable(
            ImportTable(
                ImportTable(
                    ImportTable(st, dir, "users", batch_size, ignore, workspace_id),
                    dir, "channels", batch_size, ignore, workspace_id),
                dir, "channel_members", batch_size, ignore, workspace_id),
            dir, "messages", batch_size, ignore, workspace_id),
        dir, "files", batch_size, ignore, workspace_id)

\* Workspace(id=str(...), name=str(...), created_at=int(...)) from the object
\* under "workspace" of workspace.json: [ok, v].
WorkspaceOfFields(id, name, created_at) ==
    IF id.ok /\ name.ok /\ created_at.ok
    THEN Converted([id |-> id.v, name |-> name.v, created_at |-> created_at.v])
    ELSE ConversionError
WorkspaceOfData(data) ==
    IF data.t # "obj" THEN ConversionError
    ELSE IF ~(HasKey(data, K_id) /\ HasKey(data, K_name) /\ HasKey(data, K_created_at))
    THEN ConversionError
    ELSE WorkspaceOfFields(Converted(PyStr(GetKey(data, K_id))),
                           Converted(PyStr(GetKey(data, K_name))),
                           PyInt(GetKey(data, K_created_at)))
WorkspaceOfPayload(payload) ==
    IF ~payload.ok \/ payload.v.t # "obj" THEN ConversionError
    ELSE WorkspaceOfData(RowGet(payload.v, K_workspace, JNull))

\* meta of summary.json: {} when the file is missing or holds no dict.
MetaOfPayload(payload) ==
    IF payload.ok /\ payload.v.t = "obj" THEN RowGet(payload.v, K_meta, JObj(<<>>))
    ELSE JObj(<<>>)
MetaOfSummary(file) ==
    IF file = None THEN JObj(<<>>) ELSE MetaOfPayload(JsonLoads(file[1]))
\* json.load of a summary.json that is not JSON raises.
SummaryUnreadable(file) == file # None /\ ~JsonLoads(file[1]).ok

\* The name check of import_jsonl: an existing workspace of the id with
\* another, non-empty name is refused.
NameClash(existing, workspace) ==
    /\ existing # None
    /\ existing[1].name # <<>>
    /\ existing[1].name # workspace.name

\* insert_workspace(workspace_obj, ignore=ignore) and set_workspace_meta, then
\* the five tables.
WithWorkspace(db, workspace, meta, ignore) ==
    IF get_workspace(db, workspace.id) # None /\ ~ignore
    THEN [ok |-> FALSE, db |-> db]
    ELSE [ok |-> TRUE,
          db |-> [db EXCEPT
                    !.workspaces = IF get_workspace(db, workspace.id) # None THEN @
                                   ELSE Append(@, workspace),
                    !.workspace_meta =
                        IF Truthy(meta) THEN ImportedMeta(@, workspace.id, meta)
                        ELSE @]]

ImportWorkspace(db, dir, workspace, batch_size, ignore) ==
    IF ~workspace.ok \/ SummaryUnreadable(dir.summary_json) THEN [ok |-> FALSE, db |-> db]
    ELSE IF NameClash(get_workspace(Opened(db), workspace.v.id), workspace.v)
    THEN [ok |-> FALSE, db |-> Opened(db)]
    ELSE ImportTables(WithWorkspace(Opened(db), workspace.v,
                                    MetaOfSummary(dir.summary_json), ignore),
                      dir, batch_size, ignore, workspace.v.id)

\* sorted(subdirectories)[0]
FirstDir(root) ==
    IF \A w \in Workspaces : ~root.dirs[w].exists THEN None
    ELSE Some(CHOOSE w \in Workspaces :
                 /\ root.dirs[w].exists
                 /\ \A x \in Workspaces \ {w} : root.dirs[x].exists => StrLess(w, x))

ImportDir(db, dir, batch_size, ignore) ==
    IF ~dir.exists \/ dir.workspace_json = None THEN [ok |-> FALSE, db |-> db]
    ELSE ImportWorkspace(db, dir, WorkspaceOfPayload(JsonLoads(dir.workspace_json[1])),
                         batch_size, ignore)

ImportResolved(db, root, workspace_id, batch_size, ignore) ==
    IF workspace_id = None \/ workspace_id[1] \notin Workspaces
    THEN [ok |-> FALSE, db |-> db]
    ELSE ImportDir(db, root.dirs[workspace_id[1]], batch_size, ignore)

\* import_jsonl as a whole: [ok, db].  --force with append and a missing
\* source directory are refused before anything is touched; --force removes
\* the DB file.
import_result(db, root, workspace_id, force, batch_size, mode) ==
    IF (mode = "append" /\ force) \/ ~root.exists THEN [ok |-> FALSE, db |-> db]
    ELSE ImportResolved(IF force THEN NoDb ELSE db, root,
                        IF workspace_id # None /\ workspace_id[1] # <<>> THEN workspace_id
                        ELSE FirstDir(root),
                        batch_size, mode = "append")

\* The rows of the databases exported from: full rows with short values, a
\* name with a quote, a text with a newline, NULL and non-NULL thread_ts and
\* message_id.
MaxExports == 2
MaxImports == 2
MaxChanges == 1
MaxImportBatch == 2

ID_m == <<109>>
ID_n == <<110>>
ID_f == <<102>>

FullUser(id, ws, name) ==
    [id |-> id, workspace_id |-> ws, name |-> name, email |-> <<101, 64>>,
     title |-> <<>>, is_bot |-> 0]
FullChannel(id, ws) ==
    [id |-> id, workspace_id |-> ws, name |-> <<99>>, is_private |-> 0,
     channel_type |-> T_im, topic |-> <<116>>]
FullMessage(id, ws, ts, text, thread_ts) ==
    [id |-> id, workspace_id |-> ws, channel_id |-> ID_c, user_id |-> ID_a,
     ts |-> ts, text |-> text, thread_ts |-> thread_ts, reply_count |-> 1,
     reactions_json |-> <<123, 125>>]
FullFile(id, ws, message_id) ==
    [id |-> id, workspace_id |-> ws, user_id |-> ID_a, name |-> <<102>>,
     size |-> 5000, mimetype |-> <<116>>, created_ts |-> 7, channel_id |-> ID_c,
     message_id |-> message_id, url |-> <<117>>]
MetaSeed(ws) == [workspace_id |-> ws, key |-> <<115, 101, 101, 100>>, value |-> <<49>>]
MetaName(ws) ==
    [workspace_id |-> ws, key |-> K_name, value |-> <<34, 65, 34>>]

EmptyDb == Opened(NoDb)
SmallDb ==
    [exists |-> TRUE,
     workspaces |-> <<[id |-> WS1, name |-> <<65>>, created_at |-> 1]>>,
     workspace_meta |-> {MetaSeed(WS1)},
     users |-> <<FullUser(ID_a, WS1, <<110>>)>>,
     channels |-> <<FullChannel(ID_c, WS1)>>,
     channel_members |-> <<MemberRow(ID_c, ID_a, WS1)>>,
     messages |-> <<FullMessage(ID_m, WS1, 5, <<104, 10, 105>>, None)>>,
     files |-> <<FullFile(ID_f, WS1, None)>>]
LargerDb ==
    [SmallDb EXCEPT
        !.workspace_meta = {MetaSeed(WS1), MetaName(WS1)},
        !.users = <<FullUser(ID_aq, WS1, ID_aq), FullUser(ID_a, WS1, <<110>>)>>,
        !.channel_members = <<MemberRow(ID_c, ID_aq, WS1), MemberRow(ID_c, ID_a, WS1)>>,
        !.messages = <<FullMessage(ID_m, WS1, 5, <<104, 10, 105>>, None),
                       FullMessage(ID_n, WS1, 5, <<92>>, Some(5))>>,
        !.files = <<FullFile(ID_f, WS1, Some(ID_m))>>]
TwoWorkspaceDb ==
    [SmallDb EXCEPT
        !.workspaces = Append(@, [id |-> WS2, name |-> <<66>>, created_at |-> 2]),
        !.users = Append(@, FullUser(ID_b, WS2, <<110>>))]
SourceDbs == {EmptyDb, LargerDb, TwoWorkspaceDb}

\* An export directory written by hand: created_at and is_bot as strings,
\* rows without workspace_id, and an id that occurs twice.
HandUser(name) ==
    JObj(<<(<<K_id, JStr(ID_a)>>), (<<K_name, JStr(name)>>), (<<K_email, JStr(<<101>>)>>),
           (<<K_title, JStr(<<116>>)>>), (<<K_is_bot, JStr(<<48>>)>>)>>)
HandDir ==
    [exists |-> TRUE,
     workspace_json |->
         Some(dump_json(JObj(<<(<<K_workspace,
                                  JObj(<<(<<K_id, JStr(WS1)>>), (<<K_name, JStr(<<65>>)>>),
                                         (<<K_created_at, JStr(<<49>>)>>)>>)>>)>>))),
     summary_json |-> None,
     plain |-> [c \in Collections |->
                  IF c = "users" THEN Some(dump_jsonl(<<HandUser(<<110>>), HandUser(<<111>>)>>))
                  ELSE IF c = "channel_members" THEN None
                  ELSE Some(<<>>)],
     gz |-> NoFiles]
HandRoot == [exists |-> TRUE, dirs |-> [w \in Workspaces |-> IF w = WS1 THEN HandDir ELSE NoDir]]

NoExport == [n |-> 0]
NoImport == [n |-> 0]

JsonlStep(g) ==
    /\ gen' = g
    /\ UNCHANGED <<coll, store, walk, resp, codec>>

\* The directory an export without --compress writes to holds a .jsonl.gz
\* file, which the export leaves in place.
StaleFiles(root, workspace_id, compress) ==
    /\ ~compress
    /\ workspace_id # None
    /\ workspace_id[1] \in Workspaces
    /\ \E c \in Collections : root.dirs[workspace_id[1]].gz[c] # None

Exported(g, res, compress, stale) ==
    [g EXCEPT !.exports = @ + 1,
              !.out = res.root,
              !.written = IF res.ok THEN @ + 1 ELSE @,
              !.exported = [n |-> g.exports + 1, ok |-> res.ok,
                            workspace_id |-> res.workspace_id, compress |-> compress,
                            db |-> g.src, stale |-> stale]]

\* export-jsonl --db <source> --out <out> [--workspace-id w] [--compress]
export_jsonl ==
    /\ gen.pc = "jsonl"
    /\ gen.exports < MaxExports
    /\ \E workspace_id \in {None, Some(WS1)}, compress \in BOOLEAN :
          JsonlStep(Exported(gen,
                             export_result(gen.src, gen.out,
                                           ResolvedOr(workspace_id,
                                                      latest_workspace_id(gen.src)),
                                           compress),
                             compress,
                             StaleFiles(gen.out,
                                        ResolvedOr(workspace_id,
                                                   latest_workspace_id(gen.src)),
                                        compress)))

\* written counts the exports that wrote files: the directory is the same at
\* two imports when the count is.
Imported(g, res, workspace_id, force, batch_size, mode) ==
    [g EXCEPT !.imports = @ + 1,
              !.dst = res.db,
              !.prev = g.imp,
              !.imp = [n |-> g.imports + 1, ok |-> res.ok, mode |-> mode,
                       force |-> force, batch_size |-> batch_size,
                       workspace_id |-> ResolvedOr(workspace_id, FirstDir(g.out)),
                       source |-> g.written, before |-> g.dst, after |-> res.db,
                       exported |-> g.exported]]

\* import-jsonl --source <out> --db <target> [--force] [--mode fresh|append]
\* --batch-size n, with the batch size the behaviour gives all its imports.
import_jsonl ==
    /\ gen.pc = "jsonl"
    /\ gen.imports < MaxImports
    /\ \E workspace_id \in {None}, force \in BOOLEAN, mode \in {"fresh", "append"} :
          JsonlStep(Imported(gen,
                             import_result(gen.dst, gen.out, workspace_id, force,
                                           gen.batch_size, mode),
                             workspace_id, force, gen.batch_size, mode))

\* store.insert_users([user]) on the source DB, by any command that writes
\* it between two exports.
source_insert_users ==
    /\ gen.pc = "jsonl"
    /\ gen.changes < MaxChanges
    /\ gen.src.workspaces # <<>>
    /\ ~Conflicts("users", gen.src.users, <<FullUser(ID_b, WS1, <<110>>)>>)
    /\ JsonlStep([gen EXCEPT !.changes = @ + 1,
                             !.src.users = Append(@, FullUser(ID_b, WS1, <<110>>))])

InitJsonl ==
    /\ coll = "users"
    /\ store = {}
    /\ walk = IdleWalk
    /\ resp = NoResp
    /\ codec = NoCodec
    /\ \E src \in SourceDbs, out \in {NoRoot, HandRoot},
          batch_size \in 1..MaxImportBatch :
          gen = [pc |-> "jsonl", batch_size |-> batch_size, src |-> src, dst |-> NoDb, out |-> out,
                 exports |-> 0, imports |-> 0, changes |-> 0, written |-> 0,
                 exported |-> NoExport, imp |-> NoImport, prev |-> NoImport]

NextJsonl ==
    \/ export_jsonl
    \/ import_jsonl
    \/ source_insert_users

SpecJsonl == InitJsonl /\ [][NextJsonl]_vars

\* ---------------------------------------------------------------------------
\* import-jsonl on export directories that are incomplete or were edited
\* after the export, into a target that is missing or holds a workspace.

\* The export of LargerDb, as export-jsonl writes it.
GoodRoot == export_result(LargerDb, NoRoot, Some(WS1), FALSE).root

\* The source directory exists and holds no workspace directory.
NoWorkspaceDirRoot == [exists |-> TRUE, dirs |-> [w \in Workspaces |-> NoDir]]

\* workspace.json was removed.
NoWorkspaceJsonRoot == [GoodRoot EXCEPT !.dirs[WS1].workspace_json = None]

\* workspace.json holds {} and no "workspace" object.
NoWorkspaceObjectRoot ==
    [GoodRoot EXCEPT !.dirs[WS1].workspace_json = Some(dump_json(JObj(<<>>)))]

\* The row of channels.jsonl has lost its "name".
NamelessChannel ==
    JObj(<<(<<K_id, JStr(ID_c)>>), (<<K_workspace_id, JStr(WS1)>>),
           (<<K_is_private, JInt(0)>>), (<<K_channel_type, JStr(T_im)>>),
           (<<K_topic, JStr(<<116>>)>>)>>)
BadRowRoot ==
    [GoodRoot EXCEPT !.dirs[WS1].plain["channels"] = Some(dump_jsonl(<<NamelessChannel>>))]

\* workspace.json gives the workspace the name "B".
RenamedRoot ==
    [GoodRoot EXCEPT
        !.dirs[WS1].workspace_json =
            Some(WorkspaceJson([id |-> WS1, name |-> <<66>>, created_at |-> 1]))]

ImportRoots ==
    {NoRoot, GoodRoot, NoWorkspaceDirRoot, NoWorkspaceJsonRoot, NoWorkspaceObjectRoot,
     BadRowRoot, RenamedRoot}

\* A target that holds workspace w2 only.
OtherDb ==
    [EmptyDb EXCEPT
        !.workspaces = <<[id |-> WS2, name |-> <<66>>, created_at |-> 2]>>,
        !.users = <<FullUser(ID_b, WS2, <<110>>)>>]
TargetDbs == {NoDb, SmallDb, OtherDb}

\* import-jsonl --source <out> --db <target> [--workspace-id w] [--force]
\* [--mode fresh|append] --batch-size n
import_jsonl_edited ==
    /\ gen.pc = "import"
    /\ gen.imports < MaxImports
    /\ \E workspace_id \in {None, Some(WS1), Some(WS2)}, force \in BOOLEAN,
          mode \in {"fresh", "append"} :
          JsonlStep(Imported(gen,
                             import_result(gen.dst, gen.out, workspace_id, force,
                                           gen.batch_size, mode),
                             workspace_id, force, gen.batch_size, mode))

InitImport ==
    /\ coll = "users"
    /\ store = {}
    /\ walk = IdleWalk
    /\ resp = NoResp
    /\ codec = NoCodec
    /\ \E dst \in TargetDbs, out \in ImportRoots, batch_size \in 1..MaxImportBatch :
          gen = [pc |-> "import", batch_size |-> batch_size, src |-> NoDb, dst |-> dst,
                 out |-> out, exports |-> 0, imports |-> 0, changes |-> 0,
                 written |-> 0, exported |-> NoExport, imp |-> NoImport,
                 prev |-> NoImport]

NextImport == import_jsonl_edited

SpecImport == InitImport /\ [][NextImport]_vars

\* ---------------------------------------------------------------------------
\* cli.py: _slack_request_json, one Slack Web API call with its retries.  A
\* behaviour is one call; each step is one pass through the attempt loop
\* with what urlopen gave to it.

MaxRetries == 2

E_ratelimited == <<114, 97, 116, 101, 108, 105, 109, 105, 116, 101, 100>>
E_timeout == <<116, 105, 109, 101, 111, 117, 116>>
E_internal_error == <<105, 110, 116, 101, 114, 110, 97, 108, 95, 101, 114, 114, 111, 114>>
E_service_unavailable == <<115, 101, 114, 118, 105, 99, 101, 95, 117, 110, 97, 118, 97, 105, 108, 97, 98, 108, 101>>
_SLACK_TRANSIENT_ERRORS == {E_ratelimited, E_timeout, E_internal_error, E_service_unavailable}

K_ok == <<111, 107>>
K_error == <<101, 114, 114, 111, 114>>

\* What urlopen gives to one attempt: an HTTPError with its status code and
\* its Retry-After header (None when the header is absent), a URLError, or a
\* response with its body.
HttpError(code, retry_after) ==
    [kind |-> "HTTPError", code |-> code, retry_after |-> retry_after, body |-> <<>>]
UrlError == [kind |-> "URLError", code |-> 0, retry_after |-> None, body |-> <<>>]
Response(body) == [kind |-> "response", code |-> 200, retry_after |-> None, body |-> body]

StatusCodes == {403, 408, 429, 500, 599}
RetryAfterHeaders == {None, Some(<<48>>), Some(<<50>>), Some(<<45, 51>>), Some(<<115, 111, 111, 110>>)}
B_ok == <<123, 34, 111, 107, 34, 58, 116, 114, 117, 101, 125>>
B_ratelimited == <<123, 34, 111, 107, 34, 58, 102, 97, 108, 115, 101, 44, 34, 101, 114, 114, 111, 114, 34, 58, 34, 114, 97, 116, 101, 108, 105, 109, 105, 116, 101, 100, 34, 125>>
B_timeout == <<123, 34, 111, 107, 34, 58, 102, 97, 108, 115, 101, 44, 34, 101, 114, 114, 111, 114, 34, 58, 34, 116, 105, 109, 101, 111, 117, 116, 34, 125>>
B_internal_error == <<123, 34, 111, 107, 34, 58, 102, 97, 108, 115, 101, 44, 34, 101, 114, 114, 111, 114, 34, 58, 34, 105, 110, 116, 101, 114, 110, 97, 108, 95, 101, 114, 114, 111, 114, 34, 125>>
B_service_unavailable == <<123, 34, 111, 107, 34, 58, 102, 97, 108, 115, 101, 44, 34, 101, 114, 114, 111, 114, 34, 58, 34, 115, 101, 114, 118, 105, 99, 101, 95, 117, 110, 97, 118, 97, 105, 108, 97, 98, 108, 101, 34, 125>>
B_channel_not_found == <<123, 34, 111, 107, 34, 58, 102, 97, 108, 115, 101, 44, 34, 101, 114, 114, 111, 114, 34, 58, 34, 99, 104, 97, 110, 110, 101, 108, 95, 110, 111, 116, 95, 102, 111, 117, 110, 100, 34, 125>>
B_ok_false == <<123, 34, 111, 107, 34, 58, 102, 97, 108, 115, 101, 125>>
B_ok_zero == <<123, 34, 111, 107, 34, 58, 48, 44, 34, 101, 114, 114, 111, 114, 34, 58, 34, 114, 97, 116, 101, 108, 105, 109, 105, 116, 101, 100, 34, 125>>
B_array == <<91, 49, 93>>
B_html == <<60, 104, 116, 109, 108, 62>>
Bodies ==
    {B_ok, B_ratelimited, B_timeout, B_internal_error, B_service_unavailable,
     B_channel_not_found, B_ok_false, B_ok_zero, B_array, B_html}

\* random.random() in eighths: the jitter factor 0.5 + 0.5 * random() is
\* (4 + q) / 8.
Jitters == {0, 2}

\* int(text) of a str: surrounding whitespace and a sign are accepted.
IntOfSigned(s) ==
    IF s # <<>> /\ s[1] \in {43, 45}
    THEN (IF IsNumeral(Tail(s))
          THEN Converted((IF s[1] = 45 THEN -1 ELSE 1) * ParseDigits(Tail(s), 1, 0).n)
          ELSE ConversionError)
    ELSE IF IsNumeral(s) THEN Converted(ParseDigits(s, 1, 0).n)
    ELSE ConversionError
IntOfText(s) == IntOfSigned(Strip(s))

\* retry_after = max(0, int(exc.headers.get("Retry-After", "1"))), 1 on
\* ValueError.
RetryAfterOf(converted) == IF converted.ok THEN Max(0, converted.v) ELSE 1
RetryAfterSeconds(header) ==
    RetryAfterOf(IntOfText(IF header = None THEN <<49>> ELSE header[1]))

\* 2 ** attempt
RECURSIVE Pow2(_)
Pow2(n) == IF n = 0 THEN 1 ELSE 2 * Pow2(n - 1)

\* _slack_sleep_with_backoff: the delays of time.sleep so far, in
\* milliseconds, after the call.  No sleep when max_backoff_seconds <= 0.
_slack_sleep_with_backoff(slept, attempt, max_backoff_seconds, q) ==
    IF max_backoff_seconds <= 0 THEN slept
    ELSE Append(slept, (Min(1000 * max_backoff_seconds, 500 * Pow2(attempt)) * (4 + q)) \div 8)

\* attempts = max(0, max_retries) + 1, with a faulty variant before it.
AttemptsOneMore(max_retries) == Max(0, max_retries) + 2
Attempts(max_retries) == Max(0, max_retries) + 1

\* attempt < attempts - 1, with a faulty variant before it.
AlwaysRemain(g) == g.attempt < g.attempts
AttemptsRemain(g) == g.attempt < g.attempts - 1

\* continue: the next attempt of the for loop, or, the range being
\* exhausted, the raise that follows the loop.
Continue(g, slept) ==
    IF g.attempt + 1 < g.attempts
    THEN [g EXCEPT !.attempt = g.attempt + 1, !.slept = slept]
    ELSE [g EXCEPT !.attempt = g.attempt + 1, !.slept = slept, !.pc = "raised",
                   !.error = "RuntimeError: failed after attempts"]
Raised(g, error) == [g EXCEPT !.pc = "raised", !.error = error]
Returned(g, parsed) == [g EXCEPT !.pc = "returned", !.parsed = Some(parsed)]

\* except HTTPError
IsRetriedStatus(code) == code = 408 \/ (500 <= code /\ code <= 599)
OnHttpError(g, o, q) ==
    IF o.code = 429 /\ AttemptsRemain(g)
    THEN Continue(g, Append(g.slept, 1000 * RetryAfterSeconds(o.retry_after)))
    ELSE IF IsRetriedStatus(o.code) /\ AttemptsRemain(g)
    THEN Continue(g, _slack_sleep_with_backoff(g.slept, g.attempt, g.max_backoff_seconds, q))
    ELSE Raised(g, "RuntimeError: Slack HTTP")

\* except URLError
OnUrlError(g, q) ==
    IF AttemptsRemain(g)
    THEN Continue(g, _slack_sleep_with_backoff(g.slept, g.attempt, g.max_backoff_seconds, q))
    ELSE Raised(g, "RuntimeError: Slack request failed")

\* str(parsed.get("error") or "")
ErrorText(error) == IF Truthy(error) THEN PyStr(error) ELSE <<>>

\* parsed.get("ok") is False and the error is transient
IsTransient(parsed) ==
    /\ RowGet(parsed, K_ok, JNull) = JBool(FALSE)
    /\ ErrorText(RowGet(parsed, K_error, JNull)) \in _SLACK_TRANSIENT_ERRORS

\* The statements after the try: json.loads(data) and what follows.
OnParsed(g, loaded, q) ==
    IF ~loaded.ok THEN Raised(g, "JSONDecodeError")
    ELSE IF loaded.v.t # "obj" THEN Raised(g, "RuntimeError: Unexpected Slack response")
    ELSE IF IsTransient(loaded.v) /\ AttemptsRemain(g)
    THEN Continue(g, _slack_sleep_with_backoff(g.slept, g.attempt, g.max_backoff_seconds, q))
    ELSE Returned(g, loaded.v)
OnResponse(g, o, q) == OnParsed(g, JsonLoads(o.body), q)

\* One pass of the loop body with the outcome o of urlopen.
Attempted(g, o) ==
    [g EXCEPT !.outcomes = Append(g.outcomes, o),
              !.last_exc = IF o.kind = "response" THEN g.last_exc ELSE o.kind]

SlackStep(g) ==
    /\ gen' = g
    /\ UNCHANGED <<coll, store, walk, resp, codec>>

\* urlopen raises HTTPError.
urlopen_http_error ==
    /\ gen.pc = "attempt"
    /\ \E code \in StatusCodes, q \in Jitters :
       \E header \in (IF code = 429 THEN RetryAfterHeaders ELSE {None}) :
          SlackStep(OnHttpError(Attempted(gen, HttpError(code, header)),
                                HttpError(code, header), q))

\* urlopen raises URLError.
urlopen_url_error ==
    /\ gen.pc = "attempt"
    /\ \E q \in Jitters : SlackStep(OnUrlError(Attempted(gen, UrlError), q))

\* urlopen returns a response and its body is read.
urlopen_response ==
    /\ gen.pc = "attempt"
    /\ \E body \in Bodies, q \in Jitters :
          SlackStep(OnResponse(Attempted(gen, Response(body)), Response(body), q))

\* _slack_request_json(token, request, max_retries=..., max_backoff_seconds=...)
InitSlack ==
    /\ coll = "messages"
    /\ store = {}
    /\ walk = IdleWalk
    /\ resp = NoResp
    /\ codec = NoCodec
    /\ \E max_retries \in -1..MaxRetries, max_backoff_seconds \in {0, 1, 30} :
          gen = [pc |-> "attempt", max_retries |-> max_retries,
                 max_backoff_seconds |-> max_backoff_seconds,
                 attempts |-> Attempts(max_retries), attempt |-> 0,
                 outcomes |-> <<>>, slept |-> <<>>, last_exc |-> "none",
                 parsed |-> None, error |-> "none"]

NextSlack ==
    \/ urlopen_http_error
    \/ urlopen_url_error
    \/ urlopen_response

SpecSlack == InitSlack /\ [][NextSlack]_vars

\* ---------------------------------------------------------------------------
\* cli.py: seed-live and provision-slack.  Both map the synthetic channels
\* to Slack channels with _generate_channel_map.  A request to the Slack Web
\* API is one step: it is recorded in gen.calls, and _slack_post_json or
\* _slack_get_json gives a response that is ok, a response that is not, or
\* raises RuntimeError.

MaxPlanLimit == 1

T_private == <<112, 114, 105, 118, 97, 116, 101>>
T_mpim == <<109, 112, 105, 109>>
CH_general == <<67, 49>>
CH_secret == <<67, 50>>
CH_dm == <<68, 49>>
CH_gone == <<88, 57>>
N_general == <<103, 101, 110, 101, 114, 97, 108>>
N_secret == <<115, 101, 99, 114, 101, 116>>
N_dm == <<100, 109>>
M_1 == <<109, 49>>
M_2 == <<109, 50>>
M_3 == <<109, 51>>
M_4 == <<109, 52>>
M_5 == <<109, 53>>
S_general == <<83, 49>>
S_secret == <<83, 50>>
S_created == <<83, 57>>
S_opened == <<83, 56>>
SU_a == <<85, 65>>
SU_b == <<85, 66>>
SU_aq == <<85, 81>>
TOKEN == <<120, 111, 120, 112>>

Answers == {"ok", "not_ok", "raised"}

\* dict.get(key) of a mapping: None when the key is absent.
MapGet(m, k) == IF k \in DOMAIN m THEN Some(m[k]) ELSE None
\* "if value:" of an Optional str.
IsTruthy(o) == o # None /\ o[1] # <<>>

CommandFailed(g, error) == [g EXCEPT !.pc = "failed", !.error = error]
SlackCalled(g, method) == [g EXCEPT !.calls = Append(g.calls, method)]

\* resolved_workspace_id = workspace_id or store.latest_workspace_id()
ResolvedWorkspace(db, workspace_id) ==
    IF IsTruthy(workspace_id) THEN workspace_id ELSE latest_workspace_id(db)

\* The public and private channels of the workspace in the order of
\* iter_channels, the private ones left out without include_private.
IsChannelToMap(row, include_private) ==
    /\ row.channel_type \in {T_public, T_private}
    /\ include_private \/ row.channel_type = T_public
ChannelsToMap(db, workspace_id, include_private) ==
    SelectSeq(SortRows("channels", RowsOf(db, "channels", workspace_id)),
              LAMBDA row : IsChannelToMap(row, include_private))

\* channel_members.setdefault(channel_id, []).append(user_id) over
\* iter_channel_members: the members of a channel in the order of the query.
MemberList(db, workspace_id, channel_id) ==
    SelectSeq(SortRows("channel_members", RowsOf(db, "channel_members", workspace_id)),
              LAMBDA row : row.channel_id = channel_id)

\* iter_messages_chronological: ORDER BY ts ASC, id ASC, with a faulty
\* variant before it.
NewestFirst(S) == SortRows("messages", S)
ChronologicalOrder(r1, r2) ==
    \/ r1.ts < r2.ts
    \/ (r1.ts = r2.ts /\ StrLess(r1.id, r2.id))
Chronological(S) ==
    [i \in 1..Cardinality(S) |->
        CHOOSE r \in S : Cardinality({x \in S : ChronologicalOrder(x, r)}) = i - 1]
iter_messages_chronological(db, workspace_id) ==
    Chronological(RowsOf(db, "messages", workspace_id))

\* _load_token_map: the entries of the tokens file that have a Slack user id
\* and a token.
_load_token_map(payload) ==
    [k \in {u \in DOMAIN payload :
                u # <<>> /\ payload[u].slack_user_id # <<>> /\ payload[u].access_token # <<>>}
        |-> payload[k]]

\* _load_user_id_map: the Slack user id of each entry of --user-map, else of
\* --tokens, that has one; empty when neither file is given.
SlackUserIds(payload) ==
    [k \in {u \in DOMAIN payload : u # <<>> /\ payload[u].slack_user_id # <<>>}
        |-> payload[k].slack_user_id]
_load_user_id_map(tokens, user_map) ==
    IF user_map # None THEN SlackUserIds(user_map[1])
    ELSE IF tokens # None THEN SlackUserIds(_load_token_map(tokens[1]))
    ELSE <<>>

\* The end of seed-live's mapping stage: the state in which the loop over
\* the messages starts.
Planning(g, mapping, source) ==
    [g EXCEPT !.pc = "messages", !.mapping = mapping, !.source = source,
              !.remaining = iter_messages_chronological(g.db, g.workspace[1])]

\* seed-live after _generate_channel_map has returned.
SeedMapped(g) ==
    IF g.dry_run THEN Planning(g, g.mapping, "slack_channels")
    ELSE IF g.missing # <<>> /\ ~g.create_missing
    THEN CommandFailed(g, "BadParameter: missing channels in Slack")
    ELSE Planning(g, g.mapping,
                  IF g.slack_token # None /\ g.slack_channels = None
                  THEN "slack_api" ELSE "slack_channels")

\* for channel in channels of provision-slack: the state at the next
\* channel, or at the report after the last.
ChannelAt(g, i) ==
    IF i > Len(g.channels) THEN [g EXCEPT !.pc = "report", !.ch_i = i]
    ELSE [g EXCEPT !.pc = "channel", !.ch_i = i]

\* provision-slack after _generate_channel_map has returned.
ProvisionInvites(g, user_id_map) ==
    IF DOMAIN user_id_map = {}
    THEN CommandFailed(g, "BadParameter: Provide --tokens or --user-map")
    ELSE ChannelAt([g EXCEPT !.user_id_map = user_id_map], 1)
ProvisionMapped(g) ==
    IF g.missing # <<>> /\ ~g.arg_create /\ ~g.allow_missing
    THEN CommandFailed(g, "BadParameter: missing channels in Slack")
    ELSE IF g.invite_members
    THEN ProvisionInvites([g EXCEPT !.out = Some(g.mapping)],
                          _load_user_id_map(g.tokens, g.user_map))
    ELSE [g EXCEPT !.out = Some(g.mapping), !.pc = "report"]

Mapped(g) == IF g.command = "seed-live" THEN SeedMapped(g) ELSE ProvisionMapped(g)

\* slack_by_name.get(name): the last entry of that name that has an id.
NamedEntries(entries, name) ==
    {k \in 1..Len(entries) :
        entries[k].id # <<>> /\ entries[k].name # <<>> /\ entries[k].name = name}
LastOf(idx) == CHOOSE k \in idx : \A j \in idx : j <= k
ByName(entries, name) ==
    IF NamedEntries(entries, name) = {} THEN None
    ELSE Some(entries[LastOf(NamedEntries(entries, name))])

\* The loop over the channels in _generate_channel_map.
RECURSIVE MapChannels(_, _, _, _)
MapChannels(channels, entries, mapping, missing) ==
    IF channels = <<>> THEN [mapping |-> mapping, missing |-> missing]
    ELSE IF ByName(entries, Head(channels).name) # None
    THEN MapChannels(Tail(channels), entries,
                     Put(mapping, Head(channels).id, ByName(entries, Head(channels).name)[1].id),
                     missing)
    ELSE MapChannels(Tail(channels), entries, mapping, Append(missing, Head(channels)))

\* _generate_channel_map once the Slack entries are collected: the mapping,
\* then the creation of the missing channels when create_missing asks for it.
WithMap(g, r) ==
    IF r.missing # <<>> /\ g.arg_create
    THEN (IF g.arg_token = None
          THEN CommandFailed(g, "BadParameter: create-missing requires --slack-token")
          ELSE [g EXCEPT !.pc = "create", !.mapping = r.mapping, !.missing = r.missing,
                         !.created = 0])
    ELSE Mapped([g EXCEPT !.mapping = r.mapping, !.missing = r.missing])
Matched(g, entries) == WithMap(g, MapChannels(g.channels, entries, <<>>, <<>>))

\* _collect_slack_channels up to its first request: the entries of the
\* --slack-channels file when one is given, else conversations.list with
\* the token.
_collect_slack_channels(g) ==
    IF g.slack_channels # None
    THEN (IF g.slack_channels[1].shape = "other"
          THEN CommandFailed(g, "BadParameter: Unrecognized slack-channels payload")
          ELSE Matched(g, g.slack_channels[1].items))
    ELSE IF g.arg_token = None
    THEN CommandFailed(g, "BadParameter: Provide --slack-token or --slack-channels")
    ELSE [g EXCEPT !.pc = "list", !.page = 1, !.entries = <<>>, !.fetched = 0]

\* _generate_channel_map(channels=..., slack_token=..., create_missing=...)
_generate_channel_map(g, channels, slack_token, create_missing) ==
    _collect_slack_channels([g EXCEPT !.channels = channels, !.arg_token = slack_token,
                                      !.arg_create = create_missing])

\* One pass of the while loop of _collect_slack_channels after its request:
\* the page is added; the loop ends without a next_cursor or at the limit.
ListedPage(g, entries, fetched) ==
    IF g.page = Len(g.listing) \/ (g.limit_channels # None /\ fetched >= g.limit_channels[1])
    THEN Matched([g EXCEPT !.entries = entries, !.fetched = fetched], entries)
    ELSE [g EXCEPT !.page = g.page + 1, !.entries = entries, !.fetched = fetched]
Listed(g, answer) ==
    IF answer = "raised" THEN CommandFailed(g, "RuntimeError: Slack request failed")
    ELSE IF answer = "not_ok" THEN CommandFailed(g, "RuntimeError: conversations.list failed")
    ELSE ListedPage(g, g.entries \o g.listing[g.page], g.fetched + Len(g.listing[g.page]))

\* One pass of the loop over the missing channels after its request.
CreatedChannel(g, channel) ==
    IF g.created + 1 = Len(g.missing)
    THEN Mapped([g EXCEPT !.mapping = Put(g.mapping, channel.id, S_created \o channel.id),
                          !.created = g.created + 1])
    ELSE [g EXCEPT !.mapping = Put(g.mapping, channel.id, S_created \o channel.id),
                   !.created = g.created + 1]
Created(g, answer) ==
    IF answer = "raised" THEN CommandFailed(g, "RuntimeError: Slack request failed")
    ELSE IF answer = "not_ok" THEN CommandFailed(g, "RuntimeError: conversations.create failed")
    ELSE CreatedChannel(g, g.missing[g.created + 1])

CommandStep(g) ==
    /\ gen' = g
    /\ UNCHANGED <<coll, store, walk, resp, codec>>

\* GET conversations.list
conversations_list ==
    /\ gen.pc = "list"
    /\ \E answer \in Answers : CommandStep(Listed(SlackCalled(gen, "conversations.list"), answer))

\* POST conversations.create
conversations_create ==
    /\ gen.pc = "create"
    /\ \E answer \in Answers :
          CommandStep(Created(SlackCalled(gen, "conversations.create"), answer))

\* seed-live up to the loop over the messages: the workspace, the token map
\* and the source of the channel mapping.
SeedChannelMap(g, payload) ==
    IF payload.shape # "object"
    THEN CommandFailed(g, "BadParameter: channel-map must be a JSON object")
    ELSE Planning(g, [k \in {c \in DOMAIN payload.items : payload.items[c] # <<>>}
                         |-> payload.items[k]],
                  "channel_map")
SeedSlackMap(g, channels_for_map) ==
    IF g.dry_run
    THEN (IF g.create_missing
          THEN CommandFailed(g, "BadParameter: --create-missing is not allowed with --dry-run")
          ELSE IF g.slack_channels = None
          THEN CommandFailed(g, "BadParameter: In --dry-run, provide --channel-map or --slack-channels")
          ELSE _generate_channel_map(g, channels_for_map, None, FALSE))
    ELSE _generate_channel_map(g, channels_for_map, g.slack_token, g.create_missing)
SeedMapping(g) ==
    IF g.channel_map # None THEN SeedChannelMap(g, g.channel_map[1])
    ELSE IF ChannelsToMap(g.db, g.workspace[1], g.include_private) # <<>>
    THEN SeedSlackMap(g, ChannelsToMap(g.db, g.workspace[1], g.include_private))
    ELSE Planning(g, <<>>, "none")
SeedTokens(g) ==
    IF DOMAIN g.token_map = {}
    THEN CommandFailed(g, "BadParameter: No usable tokens found in tokens file")
    ELSE SeedMapping(g)
SeedStarted(g) ==
    IF g.workspace = None
    THEN CommandFailed(g, "BadParameter: No workspaces found in DB")
    ELSE SeedTokens([g EXCEPT !.token_map = _load_token_map(g.tokens[1])])

seed_live ==
    /\ gen.pc = "start"
    /\ gen.command = "seed-live"
    /\ CommandStep(SeedStarted([gen EXCEPT !.db = Opened(gen.db),
                                      !.workspace = ResolvedWorkspace(gen.db, gen.workspace_id)]))

\* if limit_messages is not None and planned >= limit_messages: break
LimitReached(g) == g.limit_messages # None /\ g.planned >= g.limit_messages[1]

\* A message of the loop is done: one counter is incremented and the loop
\* goes on to the next message.
Counted(g, counter) ==
    [g EXCEPT ![counter] = @ + 1, !.pc = "messages", !.remaining = Tail(g.remaining),
              !.examined = Append(g.examined, Head(g.remaining).id)]
NextMessage(g) ==
    [g EXCEPT !.pc = "messages", !.remaining = Tail(g.remaining),
              !.examined = Append(g.examined, Head(g.remaining).id)]

\* The loop body from "if not slack_channel_id" on, up to the request of
\* chat.postMessage.
Resolved(g, slack_channel_id) ==
    IF ~IsTruthy(slack_channel_id) THEN Counted(g, "skipped_missing_members")
    ELSE IF g.dry_run THEN Counted(g, "planned")
    ELSE [g EXCEPT !.planned = @ + 1, !.pc = "post", !.slack_channel_id = slack_channel_id]

\* _resolve_dm_channel_id up to its request: the cached id, None with fewer
\* than two members that have a token, else conversations.open.
SlackUsers(g, members) ==
    SelectSeq(members, LAMBDA row : row.user_id \in DOMAIN g.token_map)
_resolve_dm_channel_id(g, synthetic_channel_id) ==
    IF synthetic_channel_id \in DOMAIN g.dm_cache
    THEN Resolved(g, Some(g.dm_cache[synthetic_channel_id]))
    ELSE IF Len(SlackUsers(g, MemberList(g.db, g.workspace[1], synthetic_channel_id))) < 2
    THEN Resolved(g, None)
    ELSE [g EXCEPT !.pc = "open"]

\* "if dry_run:" for a message of a channel that is neither public nor
\* private, with a faulty variant before it.
NeverSkipsDm(g) == FALSE
SkipsDm(g) == g.dry_run

\* channels.get(synthetic_channel_id)
ChannelInfo(g, channel_id) ==
    {row \in RowsOf(g.db, "channels", g.workspace[1]) : row.id = channel_id}
ChannelType(g, channel_id) == (CHOOSE row \in ChannelInfo(g, channel_id) : TRUE).channel_type

\* The loop body for the message m up to its first request.
Examined(g, m) ==
    IF m.user_id \notin DOMAIN g.token_map THEN Counted(g, "skipped_missing_user")
    ELSE IF ChannelInfo(g, m.channel_id) = {} THEN Counted(g, "skipped_missing_channel")
    ELSE IF ChannelType(g, m.channel_id) \in {T_public, T_private}
    THEN Resolved(g, MapGet(g.mapping, m.channel_id))
    ELSE IF SkipsDm(g) THEN Counted(g, "skipped_requires_slack")
    ELSE _resolve_dm_channel_id(g, m.channel_id)

seed_live_message ==
    /\ gen.pc = "messages"
    /\ gen.command = "seed-live"
    /\ gen.remaining # <<>>
    /\ ~LimitReached(gen)
    /\ CommandStep(Examined(gen, Head(gen.remaining)))

\* POST conversations.open for the message at the head of the loop.
OpenedConversation(g, answer) ==
    IF answer = "raised" THEN CommandFailed(g, "RuntimeError: Slack request failed")
    ELSE IF answer = "not_ok" THEN CommandFailed(g, "RuntimeError: conversations.open failed")
    ELSE Resolved([g EXCEPT !.dm_cache = Put(g.dm_cache, Head(g.remaining).channel_id,
                                             S_opened \o Head(g.remaining).channel_id)],
                  Some(S_opened \o Head(g.remaining).channel_id))
conversations_open ==
    /\ gen.pc = "open"
    /\ \E answer \in Answers :
          CommandStep(OpenedConversation(SlackCalled(gen, "conversations.open"), answer))

\* POST chat.postMessage for the message at the head of the loop.
PostFailed(g, error) ==
    IF g.continue_on_error THEN Counted(g, "errors")
    ELSE CommandFailed([g EXCEPT !.errors = @ + 1], error)
Posted(g, answer) ==
    IF answer = "raised" THEN PostFailed(g, "RuntimeError: Slack request failed")
    ELSE IF answer = "not_ok" THEN PostFailed(g, "RuntimeError: chat.postMessage failed")
    ELSE Counted(g, "posted")
chat_postMessage ==
    /\ gen.pc = "post"
    /\ \E answer \in Answers :
          CommandStep(Posted(SlackCalled(gen, "chat.postMessage"), answer))

\* The end of the loop: the stats of the report.
SeedStats(g) ==
    [workspace_id |-> g.workspace[1], dry_run |-> g.dry_run, planned |-> g.planned,
     posted |-> g.posted, skipped_missing_user |-> g.skipped_missing_user,
     skipped_missing_channel |-> g.skipped_missing_channel,
     skipped_missing_members |-> g.skipped_missing_members,
     skipped_requires_slack |-> g.skipped_requires_slack, errors |-> g.errors,
     source |-> g.source]
seed_live_report ==
    /\ gen.pc = "messages"
    /\ gen.command = "seed-live"
    /\ gen.remaining = <<>> \/ LimitReached(gen)
    /\ CommandStep([gen EXCEPT !.pc = "done", !.stats = Some(SeedStats(gen))])

\* The inputs of seed-live: a DB, the files the options name, the options
\* and what conversations.list of the Slack workspace holds.
SeedChannel(id, name, channel_type) ==
    [id |-> id, workspace_id |-> WS1, name |-> name, channel_type |-> channel_type,
     is_private |-> IF channel_type = T_private THEN 1 ELSE 0]
SeedMessage(id, ts, user_id, channel_id) ==
    [id |-> id, workspace_id |-> WS1, ts |-> ts, user_id |-> user_id,
     channel_id |-> channel_id]
SeedDb ==
    [NoDb EXCEPT
        !.exists = TRUE,
        !.workspaces = <<[id |-> WS1, name |-> <<65>>, created_at |-> 1]>>,
        !.channels = <<SeedChannel(CH_secret, N_secret, T_private),
                       SeedChannel(CH_general, N_general, T_public),
                       SeedChannel(CH_dm, N_dm, T_im)>>,
        !.channel_members = <<MemberRow(CH_dm, ID_b, WS1), MemberRow(CH_dm, ID_a, WS1),
                              MemberRow(CH_general, ID_a, WS1),
                              MemberRow(CH_general, ID_aq, WS1)>>,
        !.messages = <<SeedMessage(M_4, 3, ID_a, CH_secret),
                       SeedMessage(M_3, 2, ID_aq, CH_dm),
                       SeedMessage(M_2, 2, ID_b, CH_dm),
                       SeedMessage(M_5, 3, ID_b, CH_gone),
                       SeedMessage(M_1, 1, ID_a, CH_general)>>]
DmOnlyDb ==
    [SeedDb EXCEPT
        !.channels = <<SeedChannel(CH_dm, N_dm, T_mpim)>>,
        !.channel_members = <<MemberRow(CH_dm, ID_b, WS1), MemberRow(CH_dm, ID_a, WS1)>>,
        !.messages = <<SeedMessage(M_3, 2, ID_aq, CH_dm), SeedMessage(M_2, 2, ID_b, CH_dm)>>]
SeedDbs == {NoDb, SeedDb, DmOnlyDb}

TokenEntry(slack_user_id, access_token) ==
    [slack_user_id |-> slack_user_id, access_token |-> access_token]
TokenFiles ==
    {(ID_a :> TokenEntry(SU_a, TOKEN)) @@ (ID_b :> TokenEntry(SU_b, TOKEN))
        @@ (ID_aq :> TokenEntry(SU_aq, <<>>)),
     (ID_a :> TokenEntry(SU_a, TOKEN)) @@ (ID_b :> TokenEntry(<<>>, TOKEN)),
     (ID_a :> TokenEntry(<<>>, <<>>))}

ChannelMapFiles ==
    {[shape |-> "array", items |-> <<>>],
     [shape |-> "object", items |-> (CH_general :> S_general) @@ (CH_secret :> <<>>)],
     [shape |-> "object", items |-> (CH_general :> S_general) @@ (CH_secret :> S_secret)]}

SlackEntry(id, name) == [id |-> id, name |-> name]
SlackChannelsFiles ==
    {[shape |-> "channels",
      items |-> <<SlackEntry(S_general, N_general), SlackEntry(S_secret, N_secret)>>],
     [shape |-> "channels",
      items |-> <<SlackEntry(S_general, N_general), SlackEntry(<<>>, N_secret)>>],
     [shape |-> "other", items |-> <<>>]}

\* conversations.list of the Slack workspace, page by page, with the
\* --limit-channels of the command.
Listings ==
    {[pages |-> <<(<<SlackEntry(S_general, N_general), SlackEntry(S_secret, N_secret)>>)>>,
      limit |-> None],
     [pages |-> <<(<<SlackEntry(S_general, N_general)>>), <<>>>>, limit |-> None],
     [pages |-> <<(<<SlackEntry(S_general, N_general)>>),
                  (<<SlackEntry(S_secret, N_secret)>>)>>, limit |-> Some(1)]}

OptionalOf(S) == {None} \cup {Some(x) : x \in S}

NewCommand(command) ==
    [command |-> command, pc |-> "start", error |-> "none", calls |-> <<>>,
     workspace |-> None, channels |-> <<>>, arg_token |-> None, arg_create |-> FALSE,
     page |-> 0, entries |-> <<>>, fetched |-> 0, mapping |-> <<>>, missing |-> <<>>,
     created |-> 0]

InitSeed ==
    /\ coll = "messages"
    /\ store = {}
    /\ walk = IdleWalk
    /\ resp = NoResp
    /\ codec = NoCodec
    /\ \E db \in SeedDbs, tokens \in TokenFiles, channel_map \in OptionalOf(ChannelMapFiles),
          slack_channels \in OptionalOf(SlackChannelsFiles), listing \in Listings,
          slack_token \in OptionalOf({TOKEN}),
          dry_run \in BOOLEAN, create_missing \in BOOLEAN, include_private \in BOOLEAN,
          continue_on_error \in BOOLEAN,
          limit_messages \in OptionalOf(-1..MaxPlanLimit) :
          gen = NewCommand("seed-live") @@
                [db |-> db, workspace_id |-> None, tokens |-> Some(tokens),
                 channel_map |-> channel_map, slack_channels |-> slack_channels,
                 slack_token |-> slack_token, listing |-> listing.pages,
                 limit_channels |-> listing.limit, dry_run |-> dry_run,
                 create_missing |-> create_missing, include_private |-> include_private,
                 continue_on_error |-> continue_on_error, limit_messages |-> limit_messages,
                 token_map |-> <<>>, source |-> "none", remaining |-> <<>>,
                 examined |-> <<>>, dm_cache |-> <<>>, slack_channel_id |-> None,
                 planned |-> 0, posted |-> 0, skipped_missing_user |-> 0,
                 skipped_missing_channel |-> 0, skipped_missing_members |-> 0,
                 skipped_requires_slack |-> 0, errors |-> 0, stats |-> None]

NextSeed ==
    \/ seed_live
    \/ conversations_list
    \/ conversations_create
    \/ seed_live_message
    \/ conversations_open
    \/ chat_postMessage
    \/ seed_live_report

SpecSeed == InitSeed /\ [][NextSeed]_vars

\* provision-slack up to _generate_channel_map: the workspace, the channels
\* to provision and the checks of the token.
ProvisionChannels(g, channels) ==
    IF channels = <<>>
    THEN CommandFailed(g, "BadParameter: No public/private channels found to provision")
    ELSE IF (g.create_missing /\ ~g.dry_run) /\ g.slack_token = None
    THEN CommandFailed(g, "BadParameter: create-missing requires --slack-token")
    ELSE IF g.invite_members /\ ~g.dry_run /\ g.slack_token = None
    THEN CommandFailed(g, "BadParameter: Inviting members requires --slack-token")
    ELSE _generate_channel_map(g, channels, g.slack_token, g.create_missing /\ ~g.dry_run)
ProvisionStarted(g) ==
    IF g.workspace = None
    THEN CommandFailed(g, "BadParameter: No workspaces found in DB")
    ELSE ProvisionChannels(g, ChannelsToMap(g.db, g.workspace[1], g.include_private))

provision_slack ==
    /\ gen.pc = "start"
    /\ gen.command = "provision-slack"
    /\ CommandStep(ProvisionStarted([gen EXCEPT !.db = Opened(gen.db),
                                           !.workspace = ResolvedWorkspace(gen.db, gen.workspace_id)]))

\* The Slack user ids of the members of a channel that the user map knows.
KnownMembers(g, members) ==
    SelectSeq(members, LAMBDA row : row.user_id \in DOMAIN g.user_id_map)
InviteList(g, known) == [k \in 1..Len(known) |-> g.user_id_map[known[k].user_id]]

\* The body of the loop over the channels up to the first invitation.
PlannedInvites(g, members) ==
    IF members = <<>> THEN ChannelAt(g, g.ch_i + 1)
    ELSE IF g.dry_run
    THEN ChannelAt([g EXCEPT !.invites_planned = @ + Len(members)], g.ch_i + 1)
    ELSE [g EXCEPT !.invites_planned = @ + Len(members), !.pc = "invite",
                   !.members = members, !.idx = 0]
ChannelInvites(g, channel) ==
    IF ~IsTruthy(MapGet(g.mapping, channel.id)) THEN ChannelAt(g, g.ch_i + 1)
    ELSE PlannedInvites(g, InviteList(g, KnownMembers(g, MemberList(g.db, g.workspace[1],
                                                                   channel.id))))

provision_slack_channel ==
    /\ gen.pc = "channel"
    /\ CommandStep(ChannelInvites(gen, gen.channels[gen.ch_i]))

\* POST conversations.invite for the batch members[idx : idx + max(1,
\* invite_batch)].
InviteAnswers == Answers \cup {"already_in_channel"}
BatchEnd(g) == Min(g.idx + Max(1, g.invite_batch), Len(g.members))
AfterBatch(g) ==
    IF BatchEnd(g) >= Len(g.members) THEN ChannelAt(g, g.ch_i + 1)
    ELSE [g EXCEPT !.idx = BatchEnd(g)]
Invited(g, answer) ==
    IF answer \in {"raised", "not_ok"}
    THEN AfterBatch([g EXCEPT !.invite_errors = @ + 1])
    ELSE AfterBatch([g EXCEPT !.invites_sent = @ + (BatchEnd(g) - g.idx)])
conversations_invite ==
    /\ gen.pc = "invite"
    /\ \E answer \in InviteAnswers :
          CommandStep(Invited(SlackCalled(gen, "conversations.invite"), answer))

\* The report and the end of the command.
ProvisionStats(g) ==
    [channels_total |-> Len(g.channels), channels_mapped |-> Cardinality(DOMAIN g.mapping),
     channels_missing |-> Len(g.missing), invites_planned |-> g.invites_planned,
     invites_sent |-> g.invites_sent, invite_errors |-> g.invite_errors]
provision_slack_report ==
    /\ gen.pc = "report"
    /\ CommandStep([gen EXCEPT !.pc = "done", !.stats = Some(ProvisionStats(gen))])

UserMapFiles == {(ID_a :> [slack_user_id |-> SU_a]) @@ (ID_aq :> [slack_user_id |-> <<>>])}
InviteBatches == {0, 1, 30}

InitProvision ==
    /\ coll = "channels"
    /\ store = {}
    /\ walk = IdleWalk
    /\ resp = NoResp
    /\ codec = NoCodec
    /\ \E db \in SeedDbs, tokens \in OptionalOf({t \in TokenFiles : ID_aq \in DOMAIN t}),
          user_map \in OptionalOf(UserMapFiles),
          slack_channels \in OptionalOf(SlackChannelsFiles), listing \in Listings,
          slack_token \in OptionalOf({TOKEN}), invite_batch \in InviteBatches,
          dry_run \in BOOLEAN, create_missing \in BOOLEAN, include_private \in BOOLEAN,
          allow_missing \in BOOLEAN, invite_members \in BOOLEAN :
          gen = NewCommand("provision-slack") @@
                [db |-> db, workspace_id |-> None, tokens |-> tokens, user_map |-> user_map,
                 slack_channels |-> slack_channels, slack_token |-> slack_token,
                 listing |-> listing.pages, limit_channels |-> listing.limit,
                 dry_run |-> dry_run, create_missing |-> create_missing,
                 include_private |-> include_private, allow_missing |-> allow_missing,
                 invite_members |-> invite_members, invite_batch |-> invite_batch,
                 user_id_map |-> <<>>, out |-> None, ch_i |-> 0, members |-> <<>>,
                 idx |-> 0, invites_planned |-> 0, invites_sent |-> 0,
                 invite_errors |-> 0, stats |-> None]

NextProvision ==
    \/ provision_slack
    \/ conversations_list
    \/ conversations_create
    \/ provision_slack_channel
    \/ conversations_invite
    \/ provision_slack_report

SpecProvision == InitProvision /\ [][NextProvision]_vars

(***************************************************************************)
(* The read API against a database file.  A request names the file in its  *)
(* db parameter or leaves it to SWSYNTH_DB; the handler builds a           *)
(* SQLiteStore on it, answers and closes the store.  The file is followed  *)
(* with its parent directory, its journal mode, its schema and the rows of *)
(* workspaces and users.                                                   *)
(***************************************************************************)

MaxRequests == 2

Tables ==
    {"workspaces", "workspace_meta", "users", "channels", "channel_members",
     "messages", "files"}

\* "./data/workspace.db"
DB_PATH == <<46, 47, 100, 97, 116, 97, 47, 119, 46, 100, 98>>

\* The path before anything was written: no directory, no file.
NoFile ==
    [parent |-> FALSE, exists |-> FALSE, journal_mode |-> "none", tables |-> {},
     workspaces |-> {}, users |-> {}]
\* The directory exists, the file does not.
EmptyDir == [NoFile EXCEPT !.parent = TRUE]
\* An SQLite file of another program: rollback journal, none of the tables.
ForeignFile == [EmptyDir EXCEPT !.exists = TRUE, !.journal_mode = "delete"]
\* A file generate wrote: workspace w1 with the users a and b.
GeneratedFile ==
    [parent |-> TRUE, exists |-> TRUE, journal_mode |-> "wal", tables |-> Tables,
     workspaces |-> {WS1}, users |-> {UserRow(ID_a, WS1), UserRow(ID_b, WS1)}]
DbFiles == {NoFile, EmptyDir, ForeignFile, GeneratedFile}

\* "Path(path).parent.mkdir(parents=True, exist_ok=True)"
MkdirParent(file) == [file EXCEPT !.parent = TRUE]
\* "sqlite3.connect(path)" and the first statement that writes: the file is
\* created when missing.
Connect(file) ==
    [file EXCEPT !.exists = TRUE,
                 !.journal_mode = IF file.exists THEN @ ELSE "delete"]
\* "PRAGMA journal_mode=WAL"
_configure(file) == [file EXCEPT !.journal_mode = "wal"]
\* "CREATE TABLE IF NOT EXISTS ..." for each table.
_init_schema(file) == [file EXCEPT !.tables = @ \cup Tables]

\* "sqlite3.connect('file:{path}?mode=ro', uri=True)": a missing file is an
\* OperationalError, an existing one is left as it is.
_sqlite_connect_readonly(file) == [ok |-> file.exists, file |-> file]

\* SQLiteStore(path, read_only=...): the file after the constructor.
SQLiteStore(file, read_only) ==
    IF read_only THEN _sqlite_connect_readonly(file)
    ELSE [ok |-> TRUE, file |-> _init_schema(_configure(Connect(MkdirParent(file))))]

\* "resolved = db or os.environ.get('SWSYNTH_DB')"
_resolve_db(db, env) == IF IsTruthy(db) THEN db ELSE env

\* "return SQLiteStore(_resolve_db(db))": read_only keeps its default.
_store(file) == SQLiteStore(file, FALSE)

Http404 == [status |-> 404, rows |-> <<>>, next |-> None]
Http500 == [status |-> 500, rows |-> <<>>, next |-> None]

\* "SELECT * FROM workspaces ORDER BY created_at DESC": the ids, one
\* workspace at most in these files.
ListedWorkspaces(file) ==
    IF file.workspaces = {} THEN <<>> ELSE <<CHOOSE w \in file.workspaces : TRUE>>

api_list_workspaces(file) == {Http200(ListedWorkspaces(file), None)}

\* "if not workspace: raise HTTPException(status_code=404, ...)"
api_get_workspace(file, workspace_id) ==
    IF workspace_id \in file.workspaces THEN {Http200(<<workspace_id>>, None)}
    ELSE {Http404}

\* The request is answered with r and the store is closed; opened is the
\* file as the store of the request left it.
Served(db, opened, req, r) ==
    /\ gen' = [gen EXCEPT !.requests = @ + 1, !.db = db, !.before = gen.file,
                          !.file = opened]
    /\ resp' = Answered(req, r)
    /\ UNCHANGED <<coll, store, walk, codec>>

\* The answers of the endpoint of req from an opened store.
Responses(file, req) ==
    CASE req.endpoint = "workspaces" -> api_list_workspaces(file)
      [] req.endpoint = "workspace" -> api_get_workspace(file, req.workspace_id)
      [] req.endpoint = "users" ->
            api_list_users(file.users, req.workspace_id, req.limit, req.offset,
                           req.cursor)

\* A handler: _resolve_db raises 400 without a path; otherwise the store is
\* opened before anything else of the request is looked at.
Handle(db, req) ==
    IF ~IsTruthy(_resolve_db(db, gen.env)) THEN Served(db, gen.file, req, Http400)
    ELSE IF ~_store(gen.file).ok THEN Served(db, gen.file, req, Http500)
    ELSE \E r \in Responses(_store(gen.file).file, req) :
             Served(db, _store(gen.file).file, req, r)

DbParams == {None, Some(<<>>), Some(DB_PATH)}

ServeLimits == {1, MaxLimit}

\* The cursor of a request: absent, empty, not base64, or the cursor after a.
ServeCursors == {None, Some(<<>>), Some(TOK_bang), Some(TOK_id_a)}

serve_list_workspaces ==
    /\ gen.requests < MaxRequests
    /\ \E db \in DbParams :
        Handle(db, Request("workspaces", <<>>, 0, 0, None, NoFilters))

serve_get_workspace ==
    /\ gen.requests < MaxRequests
    /\ \E db \in DbParams, ws \in {WS1, WS2} :
        Handle(db, Request("workspace", ws, 0, 0, None, NoFilters))

serve_list_users ==
    /\ gen.requests < MaxRequests
    /\ \E db \in DbParams, ws \in {WS1, WS2}, limit \in ServeLimits,
          offset \in 0..MaxOffset, cursor \in ServeCursors :
        Handle(db, Request("users", ws, limit, offset, cursor, NoFilters))

InitServe ==
    /\ coll = "users"
    /\ store = {}
    /\ walk = IdleWalk
    /\ resp = NoResp
    /\ codec = NoCodec
    /\ \E file \in DbFiles, env \in {None, Some(DB_PATH)} :
           gen = [pc |-> "serving", requests |-> 0, env |-> env, db |-> None,
                  file |-> file, before |-> file]

NextServe ==
    \/ serve_list_workspaces
    \/ serve_get_workspace
    \/ serve_list_users

SpecServe == InitServe /\ [][NextServe]_vars

\* ---------------------------------------------------------------------------
\* cli.py: oauth_callback.  ThreadingHTTPServer runs do_GET of each callback
\* in a thread of its own; the main loop accepts requests until stop_event is
\* set or the timeout has passed.  A thread takes one step for each part of
\* do_GET that touches tokens, stats or the tokens file: the statements up to
\* the end of the first "with lock" block, the exchange of the code, and the
\* last "with lock" block.  exchanged and captures are the log of the codes
\* exchanged and of the entries captured, in order.

MaxCallbacks == 3

STATE_a == <<115, 97>>
STATE_b == <<115, 98>>
STATE_blank == <<115, 48>>
STATE_unknown == <<115, 63>>
CODE_1 == <<99, 49>>
CODE_2 == <<99, 50>>

\* The state map of oauth-pack: a state for user a, one for user b, and one
\* whose entry has an empty user_id.
StateMapPayload ==
    [s \in {STATE_a, STATE_b, STATE_blank} |->
        IF s = STATE_a THEN ID_a ELSE IF s = STATE_b THEN ID_b ELSE <<>>]

\* The access token Slack hands out for a code: "x" and the code.
AccessTokenOf(code) == <<120>> \o code

TokenRecord(synthetic_user_id, access_token) ==
    [synthetic_user_id |-> synthetic_user_id, slack_user_id |-> <<85>> \o synthetic_user_id,
     access_token |-> access_token]

\* The entries of a dict in ascending order of synthetic_user_id.
UsersList(tokens) ==
    CHOOSE s \in [1..Cardinality(DOMAIN tokens) -> {tokens[u] : u \in DOMAIN tokens}] :
        \A i, j \in 1..Cardinality(DOMAIN tokens) :
            i < j => StrLess(s[i].synthetic_user_id, s[j].synthetic_user_id)

\* _write_tokens_file: {"meta": {"captured": len(tokens), ...}, "users": [...]}
_write_tokens_file(tokens) ==
    Some([captured |-> Cardinality(DOMAIN tokens), users |-> UsersList(tokens)])

_write_snapshot(g) == [g EXCEPT !.file = _write_tokens_file(g.tokens)]

\* _load_existing_tokens: the entries of the "users" list by their
\* synthetic_user_id; {} when the file is missing.
_load_existing_tokens(file) ==
    IF file = None THEN <<>>
    ELSE [u \in {file[1].users[i].synthetic_user_id : i \in 1..Len(file[1].users)} |->
            CHOOSE e \in {file[1].users[i] : i \in 1..Len(file[1].users)} :
                e.synthetic_user_id = u]

\* A callback request: its path and whether it has a query, and the error,
\* code and state parameters.
Callback(path, query, error, code, state) ==
    [path |-> path, query |-> query, error |-> error, code |-> code, state |-> state]
Callbacks ==
    {Callback("/other", TRUE, FALSE, Some(CODE_1), Some(STATE_a)),
     Callback("/", FALSE, FALSE, None, None),
     Callback("/callback", TRUE, TRUE, None, Some(STATE_a)),
     Callback("/callback", TRUE, FALSE, None, Some(STATE_a)),
     Callback("/callback", TRUE, FALSE, Some(CODE_1), Some(STATE_unknown)),
     Callback("/callback", TRUE, FALSE, Some(CODE_1), Some(STATE_blank))}
        \cup {Callback("/callback", TRUE, FALSE, Some(code), Some(state)) :
                 code \in {CODE_1, CODE_2}, state \in {STATE_a, STATE_b}}

\* The thread of a request the server has accepted.
Thread(request) ==
    [pc |-> "do_GET", request |-> request, synthetic_user_id |-> <<>>, entry |-> None,
     status |-> 0]

Sent(t, status) == [t EXCEPT !.pc = "done", !.status = status]

\* do_GET up to the end of "with lock: if synthetic_user_id in tokens".
Checked(t, tokens) ==
    IF t.request.path \notin {"/", "/callback"} THEN Sent(t, 404)
    ELSE IF t.request.path = "/" /\ ~t.request.query THEN Sent(t, 200)
    ELSE IF t.request.error THEN Sent(t, 400)
    ELSE IF ~IsTruthy(t.request.code) \/ ~IsTruthy(t.request.state) THEN Sent(t, 400)
    ELSE IF t.request.state[1] \notin DOMAIN StateMapPayload THEN Sent(t, 400)
    ELSE IF StateMapPayload[t.request.state[1]] = <<>> THEN Sent(t, 400)
    ELSE IF StateMapPayload[t.request.state[1]] \in DOMAIN tokens THEN Sent(t, 200)
    ELSE [t EXCEPT !.pc = "exchange",
                   !.synthetic_user_id = StateMapPayload[t.request.state[1]]]

\* The answers of oauth.v2.access: a user token, ok without a token,
\* ok false, and a RuntimeError of _slack_post_json, which ends the thread.
ExchangeAnswers == {"token", "no_token", "not_ok", "raised"}

\* do_GET from the exchange to the construction of entry.
Exchanged(g, i, answer) ==
    [g EXCEPT
        !.exchanged = Append(@, <<g.threads[i].synthetic_user_id,
                                  g.threads[i].request.code[1]>>),
        !.stats.errors = IF answer \in {"no_token", "not_ok"} THEN @ + 1 ELSE @,
        !.threads[i] =
            IF answer = "token"
            THEN [@ EXCEPT !.pc = "capture",
                           !.entry = Some(TokenRecord(g.threads[i].synthetic_user_id,
                                                      AccessTokenOf(g.threads[i].request.code[1])))]
            ELSE IF answer = "raised" THEN Sent(@, 0)
            ELSE Sent(@, 400)]

\* "with lock: tokens[synthetic_user_id] = entry; stats['captured'] =
\* len(tokens); _write_snapshot(); if stats['captured'] >= expected:
\* stop_event.set()", then the 200 response.
Stored(g, i) ==
    [g EXCEPT
        !.tokens = Put(@, g.threads[i].synthetic_user_id, g.threads[i].entry[1]),
        !.captures = Append(@, g.threads[i].entry[1]),
        !.threads[i] = Sent(@, 200)]
CaptureCounted(g) ==
    [g EXCEPT !.stats.captured = Cardinality(DOMAIN g.tokens),
              !.stop = @ \/ Cardinality(DOMAIN g.tokens) >= g.expected]
Captured(g, i) == CaptureCounted(_write_snapshot(Stored(g, i)))

OauthStep(g) ==
    /\ gen' = g
    /\ UNCHANGED <<coll, store, walk, resp, codec>>

\* server.handle_request(): the main loop accepts a request while stop_event
\* is not set and hands it to a new thread.
handle_request ==
    /\ gen.pc = "serving"
    /\ ~gen.stop
    /\ Len(gen.threads) < MaxCallbacks
    /\ \E request \in Callbacks :
          OauthStep([gen EXCEPT !.threads = Append(@, Thread(request))])

do_GET ==
    /\ gen.pc = "serving"
    /\ \E i \in 1..Len(gen.threads) :
          /\ gen.threads[i].pc = "do_GET"
          /\ OauthStep([gen EXCEPT !.threads[i] = Checked(@, gen.tokens)])

oauth_v2_access ==
    /\ gen.pc = "serving"
    /\ \E i \in 1..Len(gen.threads), answer \in ExchangeAnswers :
          /\ gen.threads[i].pc = "exchange"
          /\ OauthStep(Exchanged(gen, i, answer))

capture ==
    /\ gen.pc = "serving"
    /\ \E i \in 1..Len(gen.threads) :
          /\ gen.threads[i].pc = "capture"
          /\ OauthStep(Captured(gen, i))

\* The loop ends with stop_event set or the timeout passed: server_close(),
\* "if tokens: _write_snapshot()", and the process ends with its threads.
oauth_callback_exit ==
    /\ gen.pc = "serving"
    /\ OauthStep([(IF DOMAIN gen.tokens # {} THEN _write_snapshot(gen) ELSE gen)
                     EXCEPT !.pc = "exited"])

\* The tokens file of an earlier run: the token of user a.
EarlierFile ==
    _write_tokens_file(Put(<<>>, ID_a, TokenRecord(ID_a, <<120, 48>>)))

InitOauth ==
    /\ coll = "users"
    /\ store = {}
    /\ walk = IdleWalk
    /\ resp = NoResp
    /\ codec = NoCodec
    /\ \E file \in {None, EarlierFile}, append \in BOOLEAN, expected \in 1..3 :
          gen = [pc |-> "serving", expected |-> expected, append |-> append,
                 tokens |-> IF append THEN _load_existing_tokens(file) ELSE <<>>,
                 file |-> file, stats |-> [captured |-> 0, errors |-> 0],
                 stop |-> FALSE, threads |-> <<>>, exchanged |-> <<>>,
                 captures |-> <<>>]

NextOauth ==
    \/ handle_request
    \/ do_GET
    \/ oauth_v2_access
    \/ capture
    \/ oauth_callback_exit

SpecOauth == InitOauth /\ [][NextOauth]_vars

(***************************************************************************)
(* Properties of the cursor walk                                           *)
(***************************************************************************)

RECURSIVE Concat(_)
Concat(pages) == IF pages = <<>> THEN <<>> ELSE Head(pages) \o Concat(Tail(pages))

Elements(rows) == {rows[i] : i \in 1..Len(rows)}
KeySet(c, rows) == {PrimaryKey(c, rows[i]) : i \in 1..Len(rows)}
NoRepeatedKey(c, rows) ==
    \A i, j \in 1..Len(rows) : i # j => PrimaryKey(c, rows[i]) # PrimaryKey(c, rows[j])

\* Two readings of "a supplied filter": any value that is not None, or any
\* value that is neither None nor the empty string.
IsGiven(o) == o # None
IsNonEmpty(o) == o # None /\ o[1] # <<>>
Supplied(o, nonEmpty) == IF nonEmpty THEN IsNonEmpty(o) ELSE IsGiven(o)

\* Row r of collection c matches every supplied filter of f.
Matches(c, r, f, nonEmpty) ==
    /\ (c = "channels" /\ Supplied(f.channel_type, nonEmpty))
            => r.channel_type = f.channel_type[1]
    /\ (c \in {"channel_members", "messages", "files"} /\ Supplied(f.channel_id, nonEmpty))
            => r.channel_id = f.channel_id[1]
    /\ (c \in {"messages", "files"} /\ Supplied(f.user_id, nonEmpty))
            => r.user_id = f.user_id[1]
    /\ (c \in {"messages", "files"} /\ f.before_ts # None) => RowTs(c, r) < f.before_ts[1]
    /\ (c \in {"messages", "files"} /\ f.after_ts # None) => RowTs(c, r) > f.after_ts[1]

\* The rows of S a walk of workspace ws with filters f has to return.
Expected(c, S, ws, f) ==
    {r \in S : r.workspace_id = ws /\ Matches(c, r, f, TRUE)}

\* The position a cursor of collection c stands for, and the sort key of a
\* row as a cursor of c carries it.
CursorPosition(c, cursor) ==
    IF cursor = None THEN DecNone
    ELSE IF c \in {"users", "channels"} THEN decode_id_cursor(cursor[1])
    ELSE IF c = "channel_members" THEN decode_channel_member_cursor(cursor[1])
    ELSE decode_cursor(cursor[1])
SortKey(c, r) ==
    IF c \in {"users", "channels"} THEN [id |-> r.id]
    ELSE IF c = "channel_members" THEN [channel_id |-> r.channel_id, user_id |-> r.user_id]
    ELSE [ts |-> JInt(RowTs(c, r)), id |-> r.id]
\* Row r comes strictly after sort key k in the canonical order of c.
AfterKey(c, r, k) ==
    IF c \in {"users", "channels"} THEN StrLess(k.id, r.id)
    ELSE IF c = "channel_members" THEN
        \/ StrLess(k.channel_id, r.channel_id)
        \/ (k.channel_id = r.channel_id /\ StrLess(k.user_id, r.user_id))
    ELSE \/ RowTs(c, r) < k.ts.n
         \/ (RowTs(c, r) = k.ts.n /\ StrLess(r.id, k.id))

\* C1: a walk from no cursor to the call that returns no next cursor, over a
\* store that is not modified meanwhile, returns every row of the workspace's
\* collection (every row matching the walk's filters) exactly once, and no two
\* of its pages share a key.
C1_WalkReturnsEachRowOnce ==
    (walk.st = "done" /\ walk.ins = 0) =>
        /\ Elements(Concat(walk.pages)) = Expected(coll, walk.start, walk.ws, walk.f)
        /\ NoRepeatedKey(coll, Concat(walk.pages))
        /\ \A p, q \in 1..Len(walk.pages) :
               p # q => KeySet(coll, walk.pages[p]) \cap KeySet(coll, walk.pages[q]) = {}

\* A finished walk of three pages (page size 1) over an unmodified store,
\* without filters.
C1_Witness ==
    /\ walk.st = "done" /\ walk.ins = 0
    /\ walk.f = NoFilters
    /\ Len(walk.pages) = 3
    /\ Len(Concat(walk.pages)) = 3

\* The contract of one list_X_page call (the last call of the walk), for
\* either reading of "a supplied filter".
PageContract(nonEmpty) ==
    LET out == walk.call.out
        pos == CursorPosition(coll, walk.call.cursor)
        eligible == {r \in walk.call.S :
                        /\ r.workspace_id = walk.ws
                        /\ Matches(coll, r, walk.f, nonEmpty)
                        /\ (IsNonEmpty(walk.call.cursor) => AfterKey(coll, r, pos.m))}
    IN  walk.st # "idle" =>
        /\ ~IsNonEmpty(walk.call.cursor) => ~out.err
        /\ ~out.err =>
            /\ Len(out.rows) <= walk.limit
            /\ Elements(out.rows) \subseteq eligible
            /\ \A i, j \in 1..Len(out.rows) :
                   i < j => OrderBy(coll, out.rows[i], out.rows[j])
            /\ \A r \in eligible \ Elements(out.rows) :
                   \A i \in 1..Len(out.rows) : OrderBy(coll, out.rows[i], r)
            /\ (out.next # None) <=> (eligible \ Elements(out.rows) # {})
            /\ out.next # None =>
                   /\ out.rows # <<>>
                   /\ CursorPosition(coll, out.next)
                          = DecOk(SortKey(coll, out.rows[Len(out.rows)]))

\* C2, read with "supplied" as "not None": every list_X_page call returns at
\* most limit rows, in order, all matching every supplied filter and all
\* strictly after the cursor position (from the start when the cursor is
\* absent or empty, which is no error); it returns a next cursor exactly when
\* a further matching row exists, and that cursor carries the sort key of the
\* last row of the page.
C2_PageContract == PageContract(FALSE)

\* C2 for filters that are not the empty string: the same contract, an empty
\* string counting as no filter.
C2_PageContractNonEmptyFilters == PageContract(TRUE)

\* A call with a cursor and a filter that is not empty, which returns the
\* rows after the cursor while a row of the workspace fails the filter.
C2_Witness ==
    /\ walk.st # "idle"
    /\ IsNonEmpty(walk.call.cursor)
    /\ \E o \in {walk.f.channel_type, walk.f.channel_id, walk.f.user_id} : IsNonEmpty(o)
    /\ walk.call.out.rows # <<>>
    /\ \E r \in walk.call.S :
           r.workspace_id = walk.ws /\ ~Matches(coll, r, walk.f, TRUE)

\* A call whose channel filter is the empty string and which returns rows.
C2_EmptyFilterCall ==
    /\ walk.st # "idle"
    /\ \E o \in {walk.f.channel_type, walk.f.channel_id} : o = Some(<<>>)
    /\ walk.call.out.rows # <<>>

\* C3 as stated: when the scan fetches limit + 1 rows, the next cursor is built
\* from the row at 0-based index limit (the last row fetched), and that row
\* is not in the returned page.
C3_CursorFromLookaheadRow ==
    (walk.st # "idle" /\ Len(walk.call.out.fetched) = walk.limit + 1) =>
        /\ walk.call.out.next # None
        /\ CursorPosition(coll, walk.call.out.next)
               = DecOk(SortKey(coll, walk.call.out.fetched[walk.limit + 1]))
        /\ walk.call.out.fetched[walk.limit + 1] \notin Elements(walk.call.out.rows)

\* C3, amended: when the scan fetches limit + 1 rows, the next cursor is built
\* from the row at 0-based index limit - 1, the last row of the returned page;
\* the row at 0-based index limit is not in the returned page, which is the
\* first limit rows fetched.
C3_CursorFromLastReturnedRow ==
    (walk.st # "idle" /\ Len(walk.call.out.fetched) = walk.limit + 1) =>
        /\ walk.call.out.next # None
        /\ CursorPosition(coll, walk.call.out.next)
               = DecOk(SortKey(coll, walk.call.out.fetched[walk.limit]))
        /\ walk.call.out.rows = SubSeq(walk.call.out.fetched, 1, walk.limit)
        /\ walk.call.out.fetched[walk.limit + 1] \notin Elements(walk.call.out.rows)

\* A call of page size 2 whose scan fetched three rows.
C3_Witness ==
    /\ walk.st # "idle"
    /\ walk.limit = 2
    /\ Len(walk.call.out.fetched) = 3
    /\ walk.call.out.next # None

\* C4: when rows are inserted between the calls of a walk, no row is returned
\* on more than one page and every row that was in the store when the walk
\* started (and matches the walk's filters) is returned exactly once.
C4_StableUnderInserts ==
    walk.st = "done" =>
        /\ NoRepeatedKey(coll, Concat(walk.pages))
        /\ Expected(coll, walk.start, walk.ws, walk.f) \subseteq Elements(Concat(walk.pages))

\* A finished walk of two or more pages during which a row was inserted
\* behind the cursor: it matches the walk but is on no page.
C4_Witness ==
    /\ walk.st = "done" /\ walk.ins > 0
    /\ Len(walk.pages) >= 2
    /\ \E r \in Expected(coll, store, walk.ws, walk.f) \ walk.start :
           r \notin Elements(Concat(walk.pages))

\* A finished walk during which a row was inserted ahead of the cursor: a
\* later page returns it.
C4_InsertAheadReturned ==
    /\ walk.st = "done" /\ walk.ins > 0
    /\ \E r \in Elements(Concat(walk.pages)) : r \notin walk.start

(***************************************************************************)
(* Properties of the read API and of the cursor codec                      *)
(***************************************************************************)

\* C5: on every paginated endpoint a request that carries a cursor parameter
\* (the empty cursor included) and a nonzero offset is answered 400, with no
\* rows and no next cursor.
C5_CursorWithOffsetRejected ==
    (resp # NoResp /\ resp.req.cursor # None /\ resp.req.offset # 0) =>
        /\ resp.status = 400
        /\ resp.rows = <<>>
        /\ resp.next = None

\* A request with the empty cursor and offset 1, for a workspace that has
\* rows, answered 400.
C5_Witness ==
    /\ resp # NoResp
    /\ resp.req.cursor = Some(<<>>)
    /\ resp.req.offset = 1
    /\ resp.status = 400
    /\ \E r \in store : r.workspace_id = resp.req.workspace_id

\* The required fields of the cursor a decoder reads, with the JSON type the
\* claim asks of each: ts an integer, the ids strings.
RequiredFields(op) ==
    IF op = "decode_cursor" THEN <<(<<K_ts, "int">>), (<<K_id, "str">>)>>
    ELSE IF op = "decode_id_cursor" THEN <<(<<K_id, "str">>)>>
    ELSE <<(<<K_channel_id, "str">>), (<<K_user_id, "str">>)>>

\* The parsed cursor d is not a JSON object, lacks a required field or holds
\* one of the wrong type.
WrongShape(op, d) ==
    \/ ~d.ok
    \/ d.v.t # "obj"
    \/ \E i \in 1..Len(RequiredFields(op)) :
           \/ ~HasKey(d.v, RequiredFields(op)[i][1])
           \/ GetKey(d.v, RequiredFields(op)[i][1]).t # RequiredFields(op)[i][2]

\* C6: a decoder raises "invalid cursor" for every input that is not empty and
\* fails the base64url reversal, is not a JSON object, lacks a required field
\* or holds a field of the wrong type (ts an integer, the ids strings).
C6_DecodersRejectWrongShape ==
    (codec.op \in DecodeOps /\ codec.token # <<>>
        /\ WrongShape(codec.op, DecodeJson(codec.token)))
            => codec.out = DecError

\* decode_cursor returned a mapping for the token of {"ts":true,"id":"a"}.
C6_BooleanTsDecoded ==
    /\ codec.op = "decode_cursor"
    /\ codec.token = TOK_ts_true
    /\ codec.out = DecOk([ts |-> JBool(TRUE), id |-> ID_a])

\* C7: decoding the token an encoder returned gives back exactly the key that
\* was encoded, with exactly the fields of the cursor's shape, and a token
\* holds only characters of the URL-safe base64 alphabet, without '='.
C7_RoundTrip ==
    /\ codec.op \in EncodeOps =>
           \A i \in 1..Len(codec.token) :
               \/ codec.token[i] \in 48..57 \/ codec.token[i] \in 65..90
               \/ codec.token[i] \in 97..122 \/ codec.token[i] \in {45, 95}
    /\ (codec.op = "decode_cursor" /\ codec.src = "encode_cursor") =>
           codec.out = DecOk([ts |-> JInt(codec.key.ts), id |-> codec.key.id])
    /\ (codec.op = "decode_id_cursor" /\ codec.src = "encode_id_cursor") =>
           codec.out = DecOk(codec.key)
    /\ (codec.op = "decode_channel_member_cursor"
            /\ codec.src = "encode_channel_member_cursor") =>
           codec.out = DecOk(codec.key)

\* A negative timestamp and an id of a quote and a backslash went through
\* encode_cursor and decode_cursor.
C7_Witness ==
    /\ codec.op = "decode_cursor" /\ codec.src = "encode_cursor"
    /\ codec.key = [ts |-> -12, id |-> <<34, 92>>]
    /\ codec.out.st = "ok"


(***************************************************************************)
(* Properties of the generate command.                                     *)
(***************************************************************************)

\* The configurations the validation is to reject: a negative count,
\* batch_size <= 0, a member bound below 1, min above max, no user but
\* something that needs one, no channel but a message or a file.
Rejectable(config) ==
    \/ \E count \in {config.users, config.channels, config.dm_channels,
                     config.mpdm_channels, config.messages, config.files} : count < 0
    \/ config.batch_size <= 0
    \/ \E bound \in {config.channel_members_min, config.channel_members_max,
                     config.mpdm_members_min, config.mpdm_members_max} : bound < 1
    \/ config.channel_members_min > config.channel_members_max
    \/ config.mpdm_members_min > config.mpdm_members_max
    \/ /\ config.users = 0
       /\ \E count \in {config.dm_channels, config.mpdm_channels,
                        config.messages, config.files} : count > 0
    \/ /\ config.channels + config.dm_channels + config.mpdm_channels = 0
       /\ \E count \in {config.messages, config.files} : count > 0

\* C8: a command whose configuration has a negative count, batch_size <= 0,
\* a member bound below 1, min above max, users = 0 with DMs, MPDMs, messages
\* or files requested, or no channel at all with messages or files requested,
\* is rejected: it ends with the parameter error, it has not opened the store,
\* it has generated no record, and the database file is as the command found
\* it.
C8_InvalidConfigRejectedBeforeStore ==
    (gen.pc # "idle" /\ Rejectable(gen.config)) =>
        /\ gen.pc = "rejected"
        /\ gen.exit = Some(2)
        /\ ~gen.opened
        /\ gen.db = gen.db0
        /\ gen.workspace_obj = None
        /\ gen.user_list = <<>> /\ gen.channel_list = <<>>
        /\ gen.messages_done = 0 /\ gen.files_done = 0

\* A command with messages but no channel is rejected against the file a
\* completed run left, and the file still holds that run's rows.
C8_Witness ==
    /\ gen.pc = "rejected"
    /\ gen.run > 1
    /\ ~gen.fresh
    /\ gen.config.channels + gen.config.dm_channels + gen.config.mpdm_channels = 0
    /\ gen.config.messages > 0
    /\ gen.prev.pc = "done"
    /\ gen.db = gen.prev.db
    /\ gen.db.messages # <<>>

Shape(config) ==
    <<config.workspace_name, config.users, config.channels, config.dm_channels,
      config.mpdm_channels, config.messages, config.files>>

\* The seed differs and the shape is the same, or the seed is the same and the
\* workspace name or one of the counts differs.
SeedOrShapeDiffers(c1, c2) ==
    \/ c1.seed # c2.seed /\ Shape(c1) = Shape(c2)
    \/ c1.seed = c2.seed /\ Shape(c1) # Shape(c2)

IdsOf(rows) == {rows[i].id : i \in 1..Len(rows)}

\* C10: a run whose configuration differs from that of a completed run in the
\* seed alone, or in the workspace name or an entity count under the same
\* seed, gets a workspace id other than that run's, and none of its user ids
\* is a user id of that run.
C10_IdsChangeWithSeedOrShape ==
    (/\ gen.run > 1
     /\ gen.prev.pc = "done"
     /\ gen.workspace_obj # None
     /\ SeedOrShapeDiffers(gen.config, gen.prev.config)) =>
        /\ gen.workspace_obj[1].id # gen.prev.workspace_obj[1].id
        /\ IdsOf(gen.user_list) \cap IdsOf(gen.prev.user_list) = {}

\* Two completed runs with users, the same seed and name, and file counts
\* that differ.
C10_Witness ==
    /\ gen.run > 1
    /\ gen.pc = "done"
    /\ gen.prev.pc = "done"
    /\ gen.config.seed = gen.prev.config.seed
    /\ gen.config.files # gen.prev.config.files
    /\ [gen.config EXCEPT !.files = 0] = [gen.prev.config EXCEPT !.files = 0]
    /\ gen.user_list # <<>>
    /\ gen.prev.user_list # <<>>

(***************************************************************************)
(* Properties of the id streams                                            *)
(***************************************************************************)

\* One of two id sequences begins with the other.
SameStream(a, b) ==
    \A i \in 1..Min(Len(a), Len(b)) : a[i] = b[i]

\* C11: within a session (one seed, one namespace) every call of
\* generate_channels returns the same sequence of channel ids, and likewise
\* generate_users, generate_messages and generate_files for their ids,
\* whatever was generated before the call and however many ids the other
\* streams have handed out.
C11_IdStreamsIndependent ==
    gen.pc = "session" =>
        \A s \in Streams : \A a, b \in gen.returned[s] : SameStream(a.ids, b.ids)

\* generate_channels returned channel ids once before any id of another
\* stream was drawn and once after users were generated.
C11_Witness ==
    /\ gen.pc = "session"
    /\ gen.drawn.users > 0
    /\ \E a, b \in gen.returned.channels :
          /\ a.before = 0 /\ b.before > 0
          /\ a.ids # <<>> /\ b.ids # <<>>

(***************************************************************************)
(* Properties of the generated records                                     *)
(***************************************************************************)

\* The rows the running command has added to table c of the file.
NewRows(g, c) == SubSeq(g.db[c], Len(g.db0[c]) + 1, Len(g.db[c]))

Started(g) == g.pc \notin {"idle", "rejected"}

\* C12: every channel member, message and file a run generates carries the
\* workspace id of the run, the id of a channel generated in the run and the
\* id of a user generated in the run.
C12_ReferentialClosure ==
    Started(gen) =>
        \A c \in {"channel_members", "messages", "files"} :
            \A i \in 1..Len(NewRows(gen, c)) :
                /\ NewRows(gen, c)[i].workspace_id = gen.workspace_obj[1].id
                /\ NewRows(gen, c)[i].channel_id \in IdsOf(gen.channel_list)
                /\ NewRows(gen, c)[i].user_id \in IdsOf(gen.user_list)

\* A run is complete on a file that holds the rows of another run, and it
\* has written members, messages and files of its own.
C12_Witness ==
    /\ gen.pc = "done"
    /\ ~gen.fresh
    /\ gen.db0.users # <<>> /\ gen.db0.channels # <<>>
    /\ NewRows(gen, "channel_members") # <<>>
    /\ NewRows(gen, "messages") # <<>>
    /\ NewRows(gen, "files") # <<>>

\* The users the rows make members of channel ch, and the number of its rows.
MembersOf(rows, ch) == {rows[i].user_id : i \in {j \in 1..Len(rows) : rows[j].channel_id = ch}}
MemberCount(rows, ch) == Cardinality({j \in 1..Len(rows) : rows[j].channel_id = ch})

ChannelsOfType(g, types) ==
    {g.channels[i].id : i \in {j \in 1..Len(g.channels) : g.channels[j].channel_type \in types}}

MembersGenerated(g) == g.pc \in {"generated", "written"}

\* C13: an ordinary channel gets between channel_members_min and
\* channel_members_max members, both clamped to the size of the user pool; an
\* im channel gets 2 distinct members when the pool holds 2 users or more and
\* the whole pool when it holds fewer; an empty pool gives no member at all.
C13_MemberCounts ==
    MembersGenerated(gen) =>
        /\ gen.users = <<>> => gen.out.rows = <<>>
        /\ gen.users # <<>> =>
              \A ch \in ChannelsOfType(gen, {"public", "private"}) :
                  /\ MemberCount(gen.out.rows, ch)
                        >= Min(gen.config.channel_members_min, Len(gen.users))
                  /\ MemberCount(gen.out.rows, ch)
                        <= Min(gen.config.channel_members_max, Len(gen.users))
        /\ \A ch \in ChannelsOfType(gen, {"im"}) :
              IF Len(gen.users) >= 2
              THEN /\ MemberCount(gen.out.rows, ch) = 2
                   /\ Cardinality(MembersOf(gen.out.rows, ch)) = 2
              ELSE /\ MemberCount(gen.out.rows, ch) = Len(gen.users)
                   /\ MembersOf(gen.out.rows, ch) = IdsOf(gen.users)

\* Members were generated from a pool smaller than channel_members_max and
\* larger than 2: the clamp to the pool applies, and the im channel gets 2 of
\* more than 2 users.
C13_Witness ==
    /\ MembersGenerated(gen)
    /\ Len(gen.users) = 3
    /\ gen.config.channel_members_min = 3
    /\ gen.config.channel_members_max > 3
    /\ MemberCount(gen.out.rows, ID_a) = 3
    /\ MemberCount(gen.out.rows, ID_b) = 2

\* C14: with a pool of 3 users or more an mpim channel gets at least 3 and at
\* most mpdm_members_max members, whatever bounds the validation accepted;
\* with a smaller pool it gets the whole pool.
C14_MpimWithinBounds ==
    MembersGenerated(gen) =>
        \A ch \in ChannelsOfType(gen, {"mpim"}) :
            IF Len(gen.users) >= 3
            THEN /\ MemberCount(gen.out.rows, ch) >= 3
                 /\ MemberCount(gen.out.rows, ch) <= gen.config.mpdm_members_max
            ELSE MembersOf(gen.out.rows, ch) = IdsOf(gen.users)

\* The same for the configurations whose mpdm_members_max is 3 or more.
C14_MpimWithinBoundsMaxAtLeast3 ==
    (MembersGenerated(gen) /\ gen.config.mpdm_members_max >= 3) =>
        \A ch \in ChannelsOfType(gen, {"mpim"}) :
            IF Len(gen.users) >= 3
            THEN /\ MemberCount(gen.out.rows, ch) >= 3
                 /\ MemberCount(gen.out.rows, ch) <= gen.config.mpdm_members_max
                 /\ Cardinality(MembersOf(gen.out.rows, ch)) = MemberCount(gen.out.rows, ch)
            ELSE MembersOf(gen.out.rows, ch) = IdsOf(gen.users)

\* An mpim channel has more members than mpdm_members_max although the pool
\* holds 3 users or more: mpdm_members_max is below 3 and the channel got the
\* whole pool.
C14_MpimAboveMax ==
    /\ MembersGenerated(gen)
    /\ Len(gen.users) > 3
    /\ gen.config.mpdm_members_max < 3
    /\ \E ch \in ChannelsOfType(gen, {"mpim"}) :
          /\ MemberCount(gen.out.rows, ch) = Len(gen.users)
          /\ MemberCount(gen.out.rows, ch) > gen.config.mpdm_members_max

\* C15: the members generated hold no (channel_id, user_id) pair twice, and
\* whatever insert_channel_members calls were made the store holds one row
\* per pair at most.
C15_NoDuplicateMembership ==
    /\ MembersGenerated(gen) => NoRepeatedKey("channel_members", gen.out.rows)
    /\ \A r1, r2 \in store :
          PrimaryKey("channel_members", r1) = PrimaryKey("channel_members", r2)
              => r1 = r2

\* The generated members were written to a store that held a pair of theirs
\* already: that row was kept and the generated one ignored.
C15_Witness ==
    /\ gen.pc = "written"
    /\ Len(gen.out.rows) > 3
    /\ \E i \in 1..Len(gen.out.rows) :
          /\ gen.out.rows[i] \notin store
          /\ HasKeyConflict("channel_members", store, gen.out.rows[i])


\* Properties of the plugin hooks

HooksDone(g) == g.pc = "done"

\* C16: the hooks of a kind are called in registration order, the first with
\* the synthesized mapping and each later one with what the hook before it
\* returned; without hooks the mapping comes back unchanged; the typed record
\* is built from what the last hook returned.
C16_HookChainInOrder ==
    gen.pc \in {"apply", "done"} =>
        /\ gen.called = SubSeq(gen.hooks, 1, Len(gen.called))
        /\ \A k \in 1..Len(gen.received) :
              gen.received[k] =
                  IF k = 1 THEN gen.payload
                  ELSE CallHook(gen.called[k - 1], gen.received[k - 1])
        /\ HooksDone(gen) =>
              /\ gen.called = gen.hooks
              /\ gen.hooks = <<>> => gen.result = gen.payload
              /\ gen.hooks # <<>> =>
                    gen.result = CallHook(gen.called[Len(gen.called)],
                                          gen.received[Len(gen.received)])
              /\ gen.result = apply(gen.hooks, gen.payload)
              /\ gen.out.record # None =>
                    \A f \in RecordFields(gen.kind) :
                        gen.out.record[1][f] = gen.result[f]

\* Two hooks whose order matters were registered, one setting the text field
\* and one appending to it, and the record holds the text set and then
\* appended to.
C16_Witness ==
    /\ HooksDone(gen)
    /\ gen.hooks = <<HookSet(TextField(gen.kind), StrValue(<<65>>)),
                     HookAppend(TextField(gen.kind))>>
    /\ gen.out.record # None
    /\ gen.out.record[1][TextField(gen.kind)] = StrValue(<<65, 66>>)

\* A required field is missing from, or has a value of a wrong type in, the
\* mapping the hooks returned.
MissingRequired(g) == \E f \in RecordFields(g.kind) : f \notin DOMAIN g.result
Mistyped(g) ==
    \E f \in RecordFields(g.kind) \cap DOMAIN g.result :
        g.result[f].type \notin FieldTypes(g.kind, f)

\* C17: when a required field is missing from the mapping the hook chain
\* returned, or has a value of the wrong type there, the generation of the
\* record fails and no typed record is produced.
C17_BadPayloadFails ==
    (HooksDone(gen) /\ (MissingRequired(gen) \/ Mistyped(gen))) =>
        /\ gen.out.error # None
        /\ gen.out.record = None

\* The part about a missing required field alone.
C17_MissingRequiredFails ==
    (HooksDone(gen) /\ MissingRequired(gen)) =>
        /\ gen.out.error = Some("KeyError")
        /\ gen.out.record = None

\* A hook gave a required integer field a string, no field is missing, and
\* the typed record was built with the string in it.
C17_MistypedRecordBuilt ==
    /\ HooksDone(gen)
    /\ Mistyped(gen)
    /\ ~MissingRequired(gen)
    /\ gen.out.error = None
    /\ gen.out.record # None
    /\ gen.out.record[1][IntField(gen.kind)].type = "str"

\* A hook removed a required field and the conversion raised KeyError.
C17_MissingWitness ==
    /\ HooksDone(gen)
    /\ MissingRequired(gen)
    /\ gen.out.error = Some("KeyError")


\* Properties of the buffered loops

\* Every batch but the last holds batch_size records; the last holds between
\* 1 and batch_size, and fewer than batch_size only once the loop is over.
BatchSizesOk(sizes, batch_size, over) ==
    \A k \in 1..Len(sizes) :
        IF k < Len(sizes) \/ ~over THEN sizes[k] = batch_size
        ELSE sizes[k] >= 1 /\ sizes[k] <= batch_size

\* C18: neither buffer ever holds more than batch_size records; every batch
\* inserted holds batch_size records but for a last, non-empty remainder; and
\* when a loop is over, the table holds the config.messages (config.files)
\* records the generator yielded, each once and in the order of generation.
C18_BoundedBatches ==
    /\ Len(gen.message_buffer) <= gen.config.batch_size
    /\ Len(gen.file_buffer) <= gen.config.batch_size
    /\ BatchSizesOk(gen.batches.messages, gen.config.batch_size,
                    gen.pc \in {"files", "file_appended", "done"})
    /\ BatchSizesOk(gen.batches.files, gen.config.batch_size, gen.pc = "done")
    /\ gen.pc \in {"files", "file_appended", "done"} =>
          /\ Len(gen.db.messages) = gen.config.messages
          /\ gen.db.messages = gen.yielded.messages
          /\ gen.db.messages =
                generate_messages(gen.config, WS1, CallerUserIds, CallerChannelIds,
                                  gen.rng0, gen.faker0, 0, gen.config.messages)
          /\ NoRepeatedKey("messages", gen.db.messages)
    /\ gen.pc = "done" =>
          /\ Len(gen.db.files) = gen.config.files
          /\ gen.db.files = gen.yielded.files
          /\ NoRepeatedKey("files", gen.db.files)

\* Both loops are over; the messages went in as full batches and a smaller
\* remainder, the files as full batches only.
C18_Witness ==
    /\ gen.pc = "done"
    /\ gen.config.batch_size = 2
    /\ gen.batches.messages = <<2, 1>>
    /\ gen.batches.files = <<2, 2>>
    /\ gen.message_buffer # <<>>


\* Properties of export-jsonl and import-jsonl

\* The last two imports were both made in append mode from the same files
\* of the same export directory, and the first of them succeeded.
ImportedTwice(g) ==
    /\ g.imp.n > 1
    /\ g.prev.ok
    /\ g.prev.mode = "append"
    /\ g.imp.mode = "append"
    /\ ~g.imp.force
    /\ g.imp.source = g.prev.source
    /\ g.imp.workspace_id = g.prev.workspace_id

\* C19: importing the same export a second time in append mode raises no
\* error and leaves the store as the first import left it.
C19_ReimportIdempotent ==
    (gen.pc = "jsonl" /\ ImportedTwice(gen)) =>
        /\ gen.imp.ok
        /\ gen.imp.before = gen.prev.after
        /\ gen.imp.after = gen.prev.after
        /\ gen.dst = gen.prev.after

\* An export written by export-jsonl was imported twice in append mode, and
\* the store holds the two users, two messages and the file it held after the
\* first import.
C19_Witness ==
    /\ gen.pc = "jsonl"
    /\ ImportedTwice(gen)
    /\ gen.imp.exported.n > 0
    /\ gen.imp.exported.ok
    /\ gen.imp.ok
    /\ Len(gen.dst.users) = 2
    /\ Len(gen.dst.messages) = 2
    /\ Len(gen.dst.files) = 1
    /\ gen.dst = gen.imp.before

\* The last import read the directory the last export wrote, for the
\* workspace that export wrote, into a DB file that did not exist or that
\* --force removed.
ImportedThatExport(g) ==
    /\ g.imp.n > 0
    /\ g.imp.exported.n > 0
    /\ g.imp.exported.ok
    /\ g.imp.workspace_id = g.imp.exported.workspace_id
    /\ IF g.imp.force THEN g.imp.mode = "fresh" ELSE ~g.imp.before.exists

\* The store db holds the workspace and, table by table, the rows the
\* exported DB held for it.
SameWorkspaceRows(db, exported, workspace_id) ==
    /\ get_workspace(db, workspace_id) # None
    /\ \A c \in Collections : RowsOf(db, c, workspace_id) = RowsOf(exported, c, workspace_id)
    /\ \A c \in Collections : Len(db[c]) = Cardinality(RowsOf(exported, c, workspace_id))

\* C20: an export without timestamp filters imported into a fresh DB gives a
\* store with the workspace id and the users, channels, channel members,
\* messages and files of the exported workspace.
C20_ExportImportRoundTrip ==
    (gen.pc = "jsonl" /\ ImportedThatExport(gen)) =>
        /\ gen.imp.ok
        /\ SameWorkspaceRows(gen.imp.after, gen.imp.exported.db,
                             gen.imp.exported.workspace_id[1])

\* The same when the export did not leave a .jsonl.gz file of an earlier
\* export in place.
C20_RoundTripWithoutStaleFiles ==
    (gen.pc = "jsonl" /\ ImportedThatExport(gen) /\ ~gen.imp.exported.stale) =>
        /\ gen.imp.ok
        /\ SameWorkspaceRows(gen.imp.after, gen.imp.exported.db,
                             gen.imp.exported.workspace_id[1])

\* An export without --compress went to the directory of an earlier export
\* with --compress, the source DB having gained a user in between; the import
\* succeeded and the store lacks that user.
C20_StaleImported ==
    /\ gen.pc = "jsonl"
    /\ ImportedThatExport(gen)
    /\ gen.imp.exported.stale
    /\ gen.imp.ok
    /\ Cardinality(RowsOf(gen.imp.exported.db, "users", WS1)) = 3
    /\ Cardinality(RowsOf(gen.imp.after, "users", WS1)) = 2

\* An export was imported into a fresh DB and every table of the store holds
\* the rows of the exported workspace.
C20_RoundTripWitness ==
    /\ gen.pc = "jsonl"
    /\ ImportedThatExport(gen)
    /\ ~gen.imp.exported.stale
    /\ gen.imp.ok
    /\ Len(gen.imp.after.messages) = 2
    /\ gen.imp.after.messages[1].thread_ts # gen.imp.after.messages[2].thread_ts


(***************************************************************************)
(* Properties of a Slack API call                                          *)
(***************************************************************************)

\* The failures after which a call is retried: HTTP 429, 408 or 5xx, a
\* network error, or a response of ok false with a transient error.
IsRetryStatus(o) ==
    /\ o.kind = "HTTPError"
    /\ o.code \in {429, 408} \cup 500..599
IsTransientResponse(o) ==
    /\ o.kind = "response"
    /\ o.body \in {B_ratelimited, B_timeout, B_internal_error, B_service_unavailable}
IsRetriedFailure(o) == IsRetryStatus(o) \/ o.kind = "URLError" \/ IsTransientResponse(o)

\* The call has returned or raised; the attempts that were followed by
\* another attempt.
CallEnded(g) == g.pc \in {"returned", "raised"}
Retried(g) == IF CallEnded(g) THEN Len(g.outcomes) - 1 ELSE Len(g.outcomes)

\* At most max(0, max_retries) + 1 attempts; an attempt is followed by
\* another exactly when it failed in such a way and attempts remain; a
\* response returned is the body of the last attempt.
AttemptsBounded(g) ==
    /\ Len(g.outcomes) <= Max(0, g.max_retries) + 1
    /\ \A i \in 1..Retried(g) : IsRetriedFailure(g.outcomes[i])
    /\ CallEnded(g) =>
          \/ ~IsRetriedFailure(g.outcomes[Len(g.outcomes)])
          \/ Len(g.outcomes) = Max(0, g.max_retries) + 1
    /\ g.pc = "returned" =>
          /\ g.outcomes[Len(g.outcomes)].kind = "response"
          /\ g.parsed = Some(JsonLoads(g.outcomes[Len(g.outcomes)].body).v)

\* One failure and then a success, with max_retries = 1.
FailureThenSuccess(g) ==
    /\ g.max_retries = 1
    /\ Len(g.outcomes) = 2
    /\ IsRetriedFailure(g.outcomes[1])
    /\ g.outcomes[2] = Response(B_ok)

\* The retried attempts that time.sleep followed: every one after HTTP 429,
\* the others when max_backoff_seconds is positive.
SleptAfter(g, i) == g.outcomes[i].code = 429 \/ g.max_backoff_seconds > 0

\* C21 as stated: at most max(0, max_retries) + 1 attempts, one sleep for
\* every retry, the first response that is not a retried failure returned;
\* one failure and a success with max_retries = 1 give the success after two
\* attempts and one sleep.
C21_OneSleepPerRetry ==
    gen.pc \in {"attempt", "returned", "raised"} =>
        /\ AttemptsBounded(gen)
        /\ Len(gen.slept) = Retried(gen)
        /\ FailureThenSuccess(gen) =>
              /\ gen.pc = "returned"
              /\ gen.parsed = Some(JObj(<<<<K_ok, JBool(TRUE)>>>>))
              /\ Len(gen.slept) = 1

\* C21 with the sleep as the code gives it: one sleep for every retry after
\* HTTP 429, and for every other retry when max_backoff_seconds is positive.
C21_OneSleepPerRetryWithBackoff ==
    gen.pc \in {"attempt", "returned", "raised"} =>
        /\ AttemptsBounded(gen)
        /\ Len(gen.slept) = Cardinality({i \in 1..Retried(gen) : SleptAfter(gen, i)})
        /\ FailureThenSuccess(gen) =>
              /\ gen.pc = "returned"
              /\ gen.parsed = Some(JObj(<<<<K_ok, JBool(TRUE)>>>>))
              /\ Len(gen.slept) = IF SleptAfter(gen, 1) THEN 1 ELSE 0

\* HTTP 500 and then a success with max_retries = 1 and a positive
\* max_backoff_seconds: the success is returned after two attempts and one
\* sleep.
C21_Witness ==
    /\ gen.pc = "returned"
    /\ gen.max_retries = 1
    /\ gen.max_backoff_seconds = 1
    /\ gen.outcomes = <<HttpError(500, None), Response(B_ok)>>
    /\ gen.slept = <<250>>

\* C26: a status other than 429, 408 or 5xx raises RuntimeError and is
\* never retried; on the last attempt an HTTP or network error raises
\* RuntimeError and a transient ok false response is returned as it is; the
\* loop is never left without a return or a raise.
C26_EndsInsideLoop ==
    gen.pc \in {"attempt", "returned", "raised"} =>
        /\ \A i \in 1..Len(gen.outcomes) :
              (gen.outcomes[i].kind = "HTTPError" /\ ~IsRetryStatus(gen.outcomes[i])) =>
                  /\ i = Len(gen.outcomes)
                  /\ gen.pc = "raised"
                  /\ gen.error = "RuntimeError: Slack HTTP"
        /\ (gen.outcomes # <<>> /\ gen.outcomes[1].kind = "HTTPError"
              /\ ~IsRetryStatus(gen.outcomes[1])) => gen.slept = <<>>
        /\ Len(gen.outcomes) = gen.attempts =>
              /\ CallEnded(gen)
              /\ gen.outcomes[gen.attempts].kind = "HTTPError" =>
                    (gen.pc = "raised" /\ gen.error = "RuntimeError: Slack HTTP")
              /\ gen.outcomes[gen.attempts].kind = "URLError" =>
                    (gen.pc = "raised" /\ gen.error = "RuntimeError: Slack request failed")
              /\ IsTransientResponse(gen.outcomes[gen.attempts]) =>
                    /\ gen.pc = "returned"
                    /\ gen.parsed = Some(JsonLoads(gen.outcomes[gen.attempts].body).v)
        /\ gen.pc = "attempt" => gen.attempt < gen.attempts
        /\ gen.error # "RuntimeError: failed after attempts"

\* A network error and then, on the last attempt, an ok false response with
\* the error ratelimited: the response is returned.
C26_Witness ==
    /\ gen.pc = "returned"
    /\ gen.max_retries = 1
    /\ gen.outcomes = <<UrlError, Response(B_ratelimited)>>
    /\ gen.parsed = Some(JObj(<<<<K_ok, JBool(FALSE)>>, <<K_error, JStr(E_ratelimited)>>>>))


(***************************************************************************)
(* Properties of seed-live and provision-slack                             *)
(***************************************************************************)

\* The loop over the messages has been reached; the messages it has done
\* with, as rows.
PlanningReached(g) == g.pc \in {"messages", "open", "post", "done"}
AtLoopBoundary(g) == g.pc \in {"messages", "done"}
MessageOfId(g, id) == CHOOSE m \in RowsOf(g.db, "messages", g.workspace[1]) : m.id = id
ExaminedRows(g) == [i \in 1..Len(g.examined) |-> MessageOfId(g, g.examined[i])]

\* The message is in a channel of the workspace that is neither public nor
\* private (an im or mpim channel).
InDmChannel(g, m) ==
    \E ch \in RowsOf(g.db, "channels", g.workspace[1]) :
        ch.id = m.channel_id /\ ch.channel_type \in {T_im, T_mpim}
HasToken(g, m) ==
    /\ m.user_id \in DOMAIN g.tokens[1]
    /\ g.tokens[1][m.user_id].slack_user_id # <<>>
    /\ g.tokens[1][m.user_id].access_token # <<>>

\* C22 as stated: a dry run of seed-live sends no request and posts
\* nothing, it plans only with --channel-map or --slack-channels, and every
\* message of an im or mpim channel is counted under skipped_requires_slack.
C22_DryRunSkipsEveryDm ==
    (gen.command = "seed-live" /\ gen.dry_run) =>
        /\ gen.calls = <<>>
        /\ gen.posted = 0
        /\ PlanningReached(gen) => (gen.channel_map # None \/ gen.slack_channels # None)
        /\ gen.pc = "done" =>
              gen.skipped_requires_slack =
                  Cardinality({m \in RowsOf(gen.db, "messages", gen.workspace[1]) :
                                  InDmChannel(gen, m)})

\* C22 with the cases the code has: a dry run plans without --channel-map
\* and --slack-channels when the workspace has no channel to map, and
\* skipped_requires_slack counts the examined messages of im and mpim
\* channels whose author has a token.
C22_DryRunCallsNothing ==
    (gen.command = "seed-live" /\ gen.dry_run) =>
        /\ gen.calls = <<>>
        /\ gen.posted = 0
        /\ gen.pc \notin {"list", "create", "open", "post"}
        /\ PlanningReached(gen) =>
              \/ gen.channel_map # None
              \/ gen.slack_channels # None
              \/ ChannelsToMap(gen.db, gen.workspace[1], gen.include_private) = <<>>
        /\ AtLoopBoundary(gen) =>
              gen.skipped_requires_slack =
                  Cardinality({i \in 1..Len(gen.examined) :
                                  /\ InDmChannel(gen, ExaminedRows(gen)[i])
                                  /\ HasToken(gen, ExaminedRows(gen)[i])})
        /\ gen.pc = "done" => (gen.stats[1].posted = 0 /\ gen.stats[1].dry_run)

\* A dry run with an offline --slack-channels file ended: a message is
\* planned, a message of the im channel is counted under
\* skipped_requires_slack, and no request was sent.
C22_Witness ==
    /\ gen.command = "seed-live"
    /\ gen.dry_run
    /\ gen.pc = "done"
    /\ gen.source = "slack_channels"
    /\ gen.slack_token # None
    /\ gen.planned > 0
    /\ gen.skipped_requires_slack > 0
    /\ gen.calls = <<>>

\* C23: a dry run of provision-slack sends no request to Slack.
C23_DryRunCallsNothing ==
    (gen.command = "provision-slack" /\ gen.dry_run) => gen.calls = <<>>

\* A dry run of provision-slack creates no channel and invites no member,
\* and sends no request at all with --slack-channels or without a token.
C23_DryRunCreatesAndInvitesNothing ==
    (gen.command = "provision-slack" /\ gen.dry_run) =>
        /\ \A i \in 1..Len(gen.calls) : gen.calls[i] = "conversations.list"
        /\ (gen.slack_channels # None \/ gen.slack_token = None) => gen.calls = <<>>
        /\ gen.invites_sent = 0

\* A dry run of provision-slack with --slack-token and without
\* --slack-channels has listed the channels of the Slack workspace and ended.
C23_DryRunListedChannels ==
    /\ gen.command = "provision-slack"
    /\ gen.dry_run
    /\ gen.slack_token # None
    /\ gen.slack_channels = None
    /\ gen.pc = "done"
    /\ gen.calls # <<>>
    /\ gen.calls[1] = "conversations.list"

\* The five counters of the loop, and the order of the messages.
CounterSum(g) ==
    g.skipped_missing_user + g.skipped_missing_channel + g.skipped_requires_slack
        + g.skipped_missing_members + g.planned
Earlier(m1, m2) == m1.ts < m2.ts \/ (m1.ts = m2.ts /\ StrLess(m1.id, m2.id))
InAscendingOrder(g) ==
    /\ \A i, j \in 1..Len(g.examined) :
          i < j => Earlier(ExaminedRows(g)[i], ExaminedRows(g)[j])
    /\ \A m \in RowsOf(g.db, "messages", g.workspace[1]) :
          (\A i \in 1..Len(g.examined) : g.examined[i] # m.id) =>
              \A i \in 1..Len(g.examined) : Earlier(ExaminedRows(g)[i], m)

\* C27 as stated: planned never exceeds limit_messages; every examined
\* message increments exactly one of the five counters; the messages are
\* taken in ascending (ts, id) order; a completed run that is not a dry run
\* has posted + errors = planned.
C27_PlannedWithinLimit ==
    (gen.command = "seed-live" /\ PlanningReached(gen)) =>
        /\ gen.limit_messages # None => gen.planned <= gen.limit_messages[1]
        /\ AtLoopBoundary(gen) => CounterSum(gen) = Len(gen.examined)
        /\ InAscendingOrder(gen)
        /\ (gen.pc = "done" /\ ~gen.dry_run) => gen.posted + gen.errors = gen.planned

\* C27 with the limit as the code applies it: planned never exceeds
\* max(0, limit_messages).
C27_PlannedWithinNonNegativeLimit ==
    (gen.command = "seed-live" /\ PlanningReached(gen)) =>
        /\ gen.limit_messages # None => gen.planned <= Max(0, gen.limit_messages[1])
        /\ AtLoopBoundary(gen) => CounterSum(gen) = Len(gen.examined)
        /\ InAscendingOrder(gen)
        /\ (gen.pc = "done" /\ ~gen.dry_run) => gen.posted + gen.errors = gen.planned

\* A run that is not a dry run ended at the limit of one planned message
\* with messages left, the planned message having been posted.
C27_Witness ==
    /\ gen.command = "seed-live"
    /\ gen.pc = "done"
    /\ ~gen.dry_run
    /\ gen.limit_messages = Some(1)
    /\ gen.planned = 1
    /\ gen.posted = 1
    /\ gen.remaining # <<>>
    /\ gen.examined = <<M_1>>

(***************************************************************************)
(* Properties of the read API against a database file                      *)
(***************************************************************************)

RequestServed == gen.pc = "serving" /\ gen.requests > 0

\* A request the handler rejects after it has built the store: cursor and
\* offset together.
RejectedRequest ==
    /\ RequestServed
    /\ resp.status = 400
    /\ resp.req.endpoint = "users"
    /\ resp.req.cursor # None
    /\ resp.req.offset # 0

\* C24: serving a list or get request, valid or rejected, creates no
\* database file, changes no schema and no journal mode, and inserts,
\* updates or deletes no row: the file after the request is the file before.
C24_RequestsReadOnly == RequestServed => gen.file = gen.before

\* C24, the rows alone: no request inserts, updates or deletes a row, drops
\* a table or removes the file.
C24_RequestsKeepRows ==
    RequestServed =>
        /\ gen.file.users = gen.before.users
        /\ gen.file.workspaces = gen.before.workspaces
        /\ gen.before.tables \subseteq gen.file.tables
        /\ gen.before.exists => gen.file.exists

\* A rejected request on a path with no directory and no file has left a
\* database file with the seven tables in WAL mode.
C24_RejectedRequestCreatedFile ==
    /\ RejectedRequest
    /\ ~gen.before.parent
    /\ ~gen.before.exists
    /\ gen.file.parent
    /\ gen.file.exists
    /\ gen.file.tables = Tables
    /\ gen.file.journal_mode = "wal"

(***************************************************************************)
(* Properties of two runs of generate into the same database file          *)
(***************************************************************************)

\* The second command runs against the file the first, completed run left.
SecondRunOnSameFile ==
    /\ gen.pc # "idle"
    /\ gen.run > 1
    /\ ~gen.fresh
    /\ gen.prev.pc = "done"

\* Workspace A, then workspace B, were generated into the same file.
GeneratedAThenB ==
    /\ SecondRunOnSameFile
    /\ gen.pc = "done"
    /\ Len(gen.db.workspaces) = 2

\* C25: after workspace A and then workspace B are generated into the same
\* database, with any seeds, latest_workspace_id returns B's id.
C25_LatestIsLastGenerated ==
    GeneratedAThenB => latest_workspace_id(gen.db) = Some(gen.workspace_obj[1].id)

\* C25 for seeds in ascending order of _base_ts: B's created_at is the
\* greater one and latest_workspace_id returns B's id.
C25_LatestIsLastGeneratedOfLaterSeed ==
    (/\ GeneratedAThenB
     /\ _base_ts(gen.config.seed) > _base_ts(gen.prev.config.seed)) =>
        latest_workspace_id(gen.db) = Some(gen.workspace_obj[1].id)

\* A was generated with seed 2 and B, after it, with seed 1:
\* latest_workspace_id returns A's id.
C25_LatestIsFirstGenerated ==
    /\ GeneratedAThenB
    /\ gen.prev.config.seed = 2
    /\ gen.config.seed = 1
    /\ gen.workspace_obj[1].id # gen.prev.workspace_obj[1].id
    /\ latest_workspace_id(gen.db) = Some(gen.prev.workspace_obj[1].id)

\* The second command has the seed, the workspace name and the counts of
\* the first.
SameWorkspaceAgain ==
    /\ SecondRunOnSameFile
    /\ gen.config.seed = gen.prev.config.seed
    /\ Shape(gen.config) = Shape(gen.prev.config)

\* C28: a second generate with the same seed, workspace name and counts
\* against the same file writes nothing: every table is as the first run
\* left it.  When its options pass the checks of the command it opens the
\* store and fails at the workspace insert with the primary-key conflict,
\* before any other write: no meta row, no record generated.
C28_SecondRunFailsAtWorkspaceInsert ==
    SameWorkspaceAgain =>
        /\ gen.db = gen.prev.db
        /\ gen.pc \in {"rejected", "configured", "opened", "failed"}
        /\ gen.pc = "rejected" <=> BadParameter(gen.config)
        /\ gen.pc = "failed" =>
               /\ gen.exit = Some(1)
               /\ gen.workspace_obj = None
               /\ gen.user_list = <<>> /\ gen.channel_list = <<>>
               /\ gen.messages_done = 0 /\ gen.files_done = 0

\* The second command has failed on the file of a first run that wrote
\* every kind of record, with another batch size than the first.
C28_Witness ==
    /\ SameWorkspaceAgain
    /\ gen.pc = "failed"
    /\ gen.config.batch_size # gen.prev.config.batch_size
    /\ gen.db.users # <<>> /\ gen.db.channels # <<>> /\ gen.db.channel_members # <<>>
    /\ gen.db.messages # <<>> /\ gen.db.files # <<>>

(***************************************************************************)
(* Properties of a failed import-jsonl                                     *)
(***************************************************************************)

FailedImport == gen.pc = "import" /\ gen.imp.n > 0 /\ ~gen.imp.ok

\* C29: a failed import-jsonl (export directory or workspace.json missing,
\* workspace object missing, a row lacking a required field, an existing
\* workspace id with a different name) leaves the target file and its rows
\* as they were before the command, with --force as well.
C29_FailedImportKeepsDb == FailedImport => gen.imp.after = gen.imp.before

\* C29 for the failures found before the store is opened or at the name
\* check, without --force: the rows of the target are as before.
C29_RefusedImportKeepsRows ==
    (FailedImport /\ ~gen.imp.force /\ gen.out # BadRowRoot) =>
        gen.imp.after \in {gen.imp.before, Opened(gen.imp.before)}

\* import-jsonl --force on an export without workspace.json has failed and
\* the target, which held a workspace, is gone.
C29_ForcedFailureRemovedDb ==
    /\ FailedImport
    /\ gen.imp.force
    /\ gen.out = NoWorkspaceJsonRoot
    /\ gen.imp.before = SmallDb
    /\ gen.imp.after = NoDb

\* import-jsonl without --force on an export whose channels.jsonl has a row
\* without "name" has failed, and the target holds the workspace and the
\* users of the export next to the rows it had.
C29_FailedImportLeftRows ==
    /\ FailedImport
    /\ ~gen.imp.force
    /\ gen.out = BadRowRoot
    /\ gen.imp.before = OtherDb
    /\ Len(gen.imp.after.workspaces) = 2
    /\ Len(gen.imp.after.users) > Len(gen.imp.before.users)
    /\ gen.imp.after.channels = <<>>

(***************************************************************************)
(* Properties of oauth-callback                                            *)
(***************************************************************************)

OauthRunning == gen.pc \in {"serving", "exited"}

\* The positions in the log of captures of the entries of user u.
CapturesOf(u) == {k \in 1..Len(gen.captures) : gen.captures[k].synthetic_user_id = u}

\* The callbacks for user u whose code was exchanged for a token.
ExchangesOf(u) ==
    {i \in 1..Len(gen.threads) :
        gen.threads[i].synthetic_user_id = u /\ gen.threads[i].entry # None}

\* The users written to the tokens file are the entries of the dict.
FileHoldsTokens ==
    /\ gen.file # None
    /\ Elements(gen.file[1].users) = {gen.tokens[u] : u \in DOMAIN gen.tokens}
    /\ Len(gen.file[1].users) = Cardinality(DOMAIN gen.tokens)
    /\ gen.file[1].captured = Cardinality(DOMAIN gen.tokens)

\* C30: under any interleaving of the callbacks, at most one code is
\* exchanged for a synthetic user, an entry once captured is not overwritten
\* by a later callback, and the tokens file written after a capture holds
\* the entries of the in-memory dict.
C30_OneExchangePerUser ==
    OauthRunning =>
        /\ \A u \in {ID_a, ID_b} :
              /\ Cardinality(ExchangesOf(u)) <= 1
              /\ Cardinality(CapturesOf(u)) <= 1
        /\ gen.captures # <<>> => FileHoldsTokens

\* C30, the file alone: once an entry was captured, the tokens file holds
\* the entries of the dict, in ascending order of synthetic_user_id.
C30_FileHoldsCapturedTokens ==
    (OauthRunning /\ gen.captures # <<>>) =>
        /\ FileHoldsTokens
        /\ gen.file[1].users = UsersList(gen.tokens)

\* Two callbacks for user a were handled at the same time: both codes were
\* exchanged, both entries captured, and the dict and the file hold the
\* token of the second capture in place of the first.
C30_SecondCaptureOverwrote ==
    /\ OauthRunning
    /\ Len(gen.exchanged) = 2
    /\ Len(gen.captures) = 2
    /\ gen.captures[1].synthetic_user_id = ID_a
    /\ gen.captures[2].synthetic_user_id = ID_a
    /\ gen.captures[1].access_token # gen.captures[2].access_token
    /\ gen.tokens[ID_a] = gen.captures[2]
    /\ gen.file[1].users = <<gen.captures[2]>>

====
